---------------------------- MODULE Spec2Model ----------------------------
(***************************************************************************)
(* Model of tracker/utils/pdf_text_extractor.py: the invoice extraction    *)
(* pipeline  bytes -> text -> lines -> header fields / line items ->       *)
(* result.                                                                 *)
(*                                                                         *)
(* Representation.                                                         *)
(*   - a byte buffer is a sequence of byte values;                         *)
(*   - a Python str is a TLA+ string; its characters are the one-character *)
(*     strings SubSeq(s, i, i);                                            *)
(*   - an optional value (Python None or a value) is the empty sequence    *)
(*     or a one-element sequence;                                          *)
(*   - a Decimal is a record [n, e, d] that stands for n / (10^e * d): n   *)
(*     is the coefficient, e the number of fractional digits, and d is 1   *)
(*     but for a quotient with no finite decimal expansion; a float is a   *)
(*     Decimal with no trailing fractional zero;                           *)
(*   - a regular expression is a sequence of items (literal, quantified    *)
(*     character class, alternation, group mark, anchor) that Match        *)
(*     interprets with the priorities of a backtracking matcher.           *)
(***************************************************************************)
EXTENDS Integers, Sequences, FiniteSets, TLC

VARIABLES
    file_bytes,     \* argument of extract_from_bytes
    filename,       \* argument of extract_from_bytes
    fitz,           \* TRUE iff the module-level name fitz is not None
    PyPDF2,         \* TRUE iff the module-level name PyPDF2 is not None
    pc,             \* position of the call
    text,           \* local text of extract_text_from_pdf / extract_from_bytes
    fitz_error,     \* local of extract_text_from_pdf
    pdf2_error,     \* local of extract_text_from_pdf
    doc,            \* the PyMuPDF document handle: "none", "open", "closed"
    pages,          \* the texts of the pages the running backend has still to read
    calls,          \* the backends entered during the call, in order
    raised,         \* the message of the exception extract_text_from_pdf raised
    parsed,         \* the dictionary parse_invoice_data returned
    result,         \* the dictionary extract_from_bytes returns
    session,        \* the calls of extract_from_bytes one process has made
    parser,         \* the locals of a call of parse_invoice_data
    scanner,        \* the locals of a call of extract_line_items_corrected
    tiers,          \* the locals of a call of parse_item_complete
    validator,      \* the locals of a call of is_valid_code_no
    builder,        \* the locals of a call of build_invoice_json
    money,          \* the locals of a call of extract_monetary_value
    codeno          \* the locals of a call of extract_code_no_enhanced

\* the variables of a call of extract_from_bytes, and those of the functions that
\* are also run on their own
call_vars == << file_bytes, filename, fitz, PyPDF2, pc, text, fitz_error,
               pdf2_error, doc, pages, calls, raised, parsed, result >>
frames == << session, parser, scanner, tiers, validator, builder, money, codeno >>
vars == << call_vars, frames >>

\* no call of the function is under way
Idle == [pc |-> "idle"]
FramesIdle ==
    /\ session = Idle
    /\ parser = Idle
    /\ scanner = Idle
    /\ tiers = Idle
    /\ validator = Idle
    /\ builder = Idle
    /\ money = Idle
    /\ codeno = Idle

-----------------------------------------------------------------------------
(* Bounds *)

MaxBytes == 5
MaxCalls == 3
MaxLines == 2

-----------------------------------------------------------------------------
(* Optional values *)

None == << >>
Some(v) == << v >>
Val(o) == o[1]

\* Python truthiness of an optional Decimal and of an optional str
TruthyDecimal(o) == o # None /\ Val(o).n # 0
TruthyStr(o) == o # None /\ Val(o) # ""

-----------------------------------------------------------------------------
(* Strings *)

Ch(s, i) == SubSeq(s, i, i)

UpperCase == "ABCDEFGHIJKLMNOPQRSTUVWXYZ"
LowerCase == "abcdefghijklmnopqrstuvwxyz"
UpperSet == { Ch(UpperCase, i) : i \in 1..Len(UpperCase) }
LowerSet == { Ch(LowerCase, i) : i \in 1..Len(LowerCase) }
DigitSet == { Ch("0123456789", i) : i \in 1..Len("0123456789") }
SpaceSet == { " ", "\t", "\n", "\r" }
WordSet == UpperSet \cup LowerSet \cup DigitSet \cup { "_" }

LowerMap == [ c \in UpperSet |-> Ch(LowerCase, CHOOSE i \in 1..Len(UpperCase) : Ch(UpperCase, i) = c) ]
UpperMap == [ c \in LowerSet |-> Ch(UpperCase, CHOOSE i \in 1..Len(LowerCase) : Ch(LowerCase, i) = c) ]
LowerChar(c) == IF c \in UpperSet THEN LowerMap[c] ELSE c
UpperChar(c) == IF c \in LowerSet THEN UpperMap[c] ELSE c

Min(S) == CHOOSE n \in S : \A m \in S : n <= m
Max(S) == CHOOSE n \in S : \A m \in S : n >= m

\* str.lower() and str.upper()
RECURSIVE MapChars(_, _, _, _)
MapChars(s, lo, hi, upper) ==
    IF lo > hi THEN ""
    ELSE IF lo = hi THEN (IF upper THEN UpperChar(Ch(s, lo)) ELSE LowerChar(Ch(s, lo)))
    ELSE LET mid == (lo + hi) \div 2
         IN MapChars(s, lo, mid, upper) \o MapChars(s, mid + 1, hi, upper)
Lower(s) == MapChars(s, 1, Len(s), FALSE)
Upper(s) == MapChars(s, 1, Len(s), TRUE)

\* str.endswith(suffix)
EndsWith(s, suffix) ==
    /\ Len(suffix) <= Len(s)
    /\ SubSeq(s, Len(s) - Len(suffix) + 1, Len(s)) = suffix

\* str.strip()
Strip(s) ==
    LET solid == { i \in 1..Len(s) : Ch(s, i) \notin SpaceSet }
    IN IF solid = {} THEN "" ELSE SubSeq(s, Min(solid), Max(solid))

\* ' '.join(strs)
RECURSIVE JoinWithSpace(_)
JoinWithSpace(strs) ==
    IF Len(strs) = 0 THEN ""
    ELSE IF Len(strs) = 1 THEN strs[1]
    ELSE strs[1] \o " " \o JoinWithSpace(Tail(strs))

\* sub in s
Contains(s, sub) == \E i \in 1..(Len(s) - Len(sub) + 1) : SubSeq(s, i, i + Len(sub) - 1) = sub

-----------------------------------------------------------------------------
(* Regular expressions (module re).                                        *)
(* A pattern is a sequence of items.  Match(p, s, i, ci) is the match of   *)
(* p at position i of s that a backtracking matcher finds first: a greedy  *)
(* item takes the longest run that lets the rest match, a lazy item the    *)
(* shortest, an alternation its first alternative that lets the rest       *)
(* match.  ci is the flag re.I.                                            *)

Groups == 1..6

Lit(str) == [k |-> "lit", str |-> str]
\* a character class repeated between min and max times (max = -1: no limit)
Cls(set, min, max) == [k |-> "cls", neg |-> FALSE, set |-> set, min |-> min, max |-> max, lazy |-> FALSE]
NotCls(set, min, max) == [k |-> "cls", neg |-> TRUE, set |-> set, min |-> min, max |-> max, lazy |-> FALSE]
Lazy(item) == [item EXCEPT !.lazy = TRUE]
Dot(min, max) == NotCls({ "\n" }, min, max)
Alt(alts) == [k |-> "alt", alts |-> alts]
Opt(pattern) == Alt(<< pattern, << >> >>)
Open(g) == [k |-> "open", g |-> g]
Close(g) == [k |-> "close", g |-> g]
Bol == [k |-> "bol"]
Eol == [k |-> "eol"]
WordBoundary == [k |-> "wb"]
Ahead(pattern) == [k |-> "ahead", p |-> pattern]
Words(strs) == Alt([ j \in 1..Len(strs) |-> << Lit(strs[j]) >> ])

Spaces0 == Cls(SpaceSet, 0, -1)
Spaces1 == Cls(SpaceSet, 1, -1)

NoMatch == [ok |-> FALSE, start |-> 0, end |-> 0, gs |-> [g \in Groups |-> 0], ge |-> [g \in Groups |-> 0]]
MatchEnd(i) == [ok |-> TRUE, start |-> i, end |-> i, gs |-> [g \in Groups |-> 0], ge |-> [g \in Groups |-> 0]]

InCls(c, item, ci) ==
    item.neg # (\/ c \in item.set
                \/ ci /\ (LowerChar(c) \in item.set \/ UpperChar(c) \in item.set))

\* the length of the longest run of characters of the class from position i
Capped(run, max) == IF max >= 0 /\ run > max THEN max ELSE run
RunLen(s, i, item, ci) ==
    Capped(Min({ n \in 0..(Len(s) - i + 1) : n = Len(s) - i + 1 \/ ~InCls(Ch(s, i + n), item, ci) }),
           item.max)

LitAt(s, i, str, ci) ==
    /\ i + Len(str) - 1 <= Len(s)
    /\ IF ci THEN \A j \in 1..Len(str) : LowerChar(Ch(s, i + j - 1)) = LowerChar(Ch(str, j))
             ELSE SubSeq(s, i, i + Len(str) - 1) = str

IsWordChar(s, i) == i >= 1 /\ i <= Len(s) /\ Ch(s, i) \in WordSet

\* among the candidates [n, r] whose rest matched, the one the matcher tries first
Pick(oks, lazy) ==
    IF oks = {} THEN NoMatch
    ELSE IF lazy THEN (CHOOSE c \in oks : \A d \in oks : c.n <= d.n).r
    ELSE (CHOOSE c \in oks : \A d \in oks : c.n >= d.n).r

RECURSIVE Match(_, _, _, _)
MatchItem(item, rest, s, i, ci) ==
    CASE item.k = "lit" ->
           IF LitAt(s, i, item.str, ci) THEN Match(rest, s, i + Len(item.str), ci) ELSE NoMatch
      [] item.k = "cls" ->
           Pick({ c \in { [n |-> n, r |-> Match(rest, s, i + n, ci)]
                          : n \in item.min..RunLen(s, i, item, ci) } : c.r.ok }, item.lazy)
      [] item.k = "alt" ->
           Pick({ c \in { [n |-> j, r |-> Match(item.alts[j] \o rest, s, i, ci)]
                          : j \in 1..Len(item.alts) } : c.r.ok }, TRUE)
      [] item.k = "open" -> [Match(rest, s, i, ci) EXCEPT !.gs[item.g] = i]
      [] item.k = "close" -> [Match(rest, s, i, ci) EXCEPT !.ge[item.g] = i]
      [] item.k = "bol" -> IF i = 1 THEN Match(rest, s, i, ci) ELSE NoMatch
      [] item.k = "eol" -> IF i = Len(s) + 1 THEN Match(rest, s, i, ci) ELSE NoMatch
      [] item.k = "ahead" ->
           IF Match(item.p, s, i, ci).ok THEN Match(rest, s, i, ci) ELSE NoMatch
      [] item.k = "wb" ->
           IF IsWordChar(s, i - 1) # IsWordChar(s, i) THEN Match(rest, s, i, ci) ELSE NoMatch
Match(p, s, i, ci) ==
    IF p = << >> THEN MatchEnd(i) ELSE MatchItem(Head(p), Tail(p), s, i, ci)

\* re.search from position `from`: the leftmost match
Leftmost(oks) ==
    IF oks = {} THEN NoMatch
    ELSE [Pick(oks, TRUE) EXCEPT !.start = CHOOSE n \in { c.n : c \in oks } : \A c \in oks : n <= c.n]
SearchFrom(p, s, from, ci) ==
    Leftmost({ c \in { [n |-> i, r |-> Match(p, s, i, ci)] : i \in from..(Len(s) + 1) } : c.r.ok })

\* re.search, re.match, match.group(g), match.group(0)
Search(p, s, ci) == SearchFrom(p, s, 1, ci)
MatchStart(p, s, ci) == [Match(p, s, 1, ci) EXCEPT !.start = 1]
Group(s, m, g) == SubSeq(s, m.gs[g], m.ge[g] - 1)
Group0(s, m) == SubSeq(s, m.start, m.end - 1)

\* re.finditer: the matches from left to right, none overlapping another; the scan
\* resumes where a match ended, one character further when the match was empty
RECURSIVE FindAllFrom(_, _, _, _)
FindAllNext(p, s, ci, m) ==
    IF ~m.ok THEN << >>
    ELSE << m >> \o FindAllFrom(p, s, IF m.end > m.start THEN m.end ELSE m.end + 1, ci)
FindAllFrom(p, s, from, ci) ==
    IF from > Len(s) + 1 THEN << >> ELSE FindAllNext(p, s, ci, SearchFrom(p, s, from, ci))
FindAll(p, s, ci) == FindAllFrom(p, s, 1, ci)

\* re.sub(p, repl, s): every match is replaced by repl
RECURSIVE SubFrom(_, _, _, _, _)
SubFrom(ms, k, repl, s, from) ==
    IF k > Len(ms) THEN SubSeq(s, from, Len(s))
    ELSE SubSeq(s, from, ms[k].start - 1) \o repl \o SubFrom(ms, k + 1, repl, s, ms[k].end)
Sub(p, repl, s, ci) == SubFrom(FindAll(p, s, ci), 1, repl, s, 1)

\* s.find(sub), counted from 1; 0 when sub is not in s
Find(s, sub) ==
    IF Contains(s, sub)
    THEN Min({ i \in 1..(Len(s) - Len(sub) + 1) : SubSeq(s, i, i + Len(sub) - 1) = sub })
    ELSE 0

\* s.replace(old, new, 1)
ReplaceAt(s, at, old, new) ==
    IF at = 0 THEN s ELSE SubSeq(s, 1, at - 1) \o new \o SubSeq(s, at + Len(old), Len(s))
ReplaceFirst(s, old, new) == ReplaceAt(s, Find(s, old), old, new)

-----------------------------------------------------------------------------
(* Strings, continued: the conversions the parser uses *)

\* the characters of s[lo..hi] that are in `keep`, in order
RECURSIVE FilterChars(_, _, _, _)
FilterChars(s, lo, hi, keep) ==
    IF lo > hi THEN ""
    ELSE IF lo = hi THEN (IF Ch(s, lo) \in keep THEN Ch(s, lo) ELSE "")
    ELSE LET mid == (lo + hi) \div 2
         IN FilterChars(s, lo, mid, keep) \o FilterChars(s, mid + 1, hi, keep)

\* text.replace('\r\n', '\n').replace('\r', '\n')   (line 101)
RECURSIVE NormalizeNewlines(_, _, _)
NormalizeNewlines(s, lo, hi) ==
    IF lo > hi THEN ""
    ELSE IF lo = hi
         THEN (IF Ch(s, lo) # "\r" THEN Ch(s, lo)
               ELSE IF lo < Len(s) /\ Ch(s, lo + 1) = "\n" THEN "" ELSE "\n")
    ELSE LET mid == (lo + hi) \div 2
         IN NormalizeNewlines(s, lo, mid) \o NormalizeNewlines(s, mid + 1, hi)

\* s.split('\n')
SplitLines(s) ==
    LET breaks == { i \in 1..Len(s) : Ch(s, i) = "\n" }
        \* the position of the k-th line break; 0 and Len(s) + 1 bracket the string
        Break(k) == IF k = 0 THEN 0
                    ELSE IF k > Cardinality(breaks) THEN Len(s) + 1
                    ELSE CHOOSE i \in breaks : Cardinality({ j \in breaks : j < i }) = k - 1
    IN [ k \in 1..(Cardinality(breaks) + 1) |-> SubSeq(s, Break(k - 1) + 1, Break(k) - 1) ]

\* the characters of s that are in keep
Keep(s, keep) == FilterChars(s, 1, Len(s), keep)

DigitValue(c) == CHOOSE d \in 0..9 : Ch("0123456789", d + 1) = c

\* int(digits)
RECURSIVE IntOf(_)
IntOf(digits) ==
    IF digits = "" THEN 0
    ELSE 10 * IntOf(SubSeq(digits, 1, Len(digits) - 1)) + DigitValue(Ch(digits, Len(digits)))

\* Decimal(s) for s made of digits and at most one point
PointAt(s, points) == IF points = {} THEN Len(s) ELSE Min(points)
DecimalOf(s) ==
    [n |-> IntOf(Keep(s, DigitSet)),
     e |-> Len(s) - PointAt(s, { i \in 1..Len(s) : Ch(s, i) = "." }),
     d |-> 1]

\* Decimal(s) raises InvalidOperation
DecimalRaises(s) ==
    \/ \A i \in 1..Len(s) : Ch(s, i) \notin DigitSet
    \/ Cardinality({ i \in 1..Len(s) : Ch(s, i) = "." }) > 1

\* Decimal(k) for an int k
DecimalOfInt(k) == [n |-> k, e |-> 0, d |-> 1]

RECURSIVE Pow10(_)
Pow10(k) == IF k = 0 THEN 1 ELSE 10 * Pow10(k - 1)

\* float(x): the exponent of the Decimal is lost
RECURSIVE FloatOf(_)
FloatOf(x) ==
    IF x.e > 0 /\ x.n % 10 = 0 THEN FloatOf([x EXCEPT !.n = x.n \div 10, !.e = x.e - 1]) ELSE x

\* x < y and x = y on floats
FloatLess(x, y) == x.n * Pow10(y.e) < y.n * Pow10(x.e)
FloatEq(x, y) == x.n * Pow10(y.e) = y.n * Pow10(x.e)

RECURSIVE Gcd(_, _)
Gcd(a, b) == IF b = 0 THEN a ELSE Gcd(b, a % b)

\* how many times the prime p divides q
RECURSIVE TimesDivides(_, _)
TimesDivides(p, q) == IF q % p = 0 THEN 1 + TimesDivides(p, q \div p) ELSE 0

RECURSIVE Pow(_, _)
Pow(b, k) == IF k = 0 THEN 1 ELSE b * Pow(b, k - 1)

\* n / (10^e * q) for n and q with no common factor: a Decimal with as few more
\* fractional digits as the quotient needs, when finitely many do
Quotient(n, e, q, twos, fives) ==
    IF q = Pow(2, twos) * Pow(5, fives)
    THEN [n |-> (n * Pow10(Max({ twos, fives }))) \div q, e |-> e + Max({ twos, fives }), d |-> 1]
    ELSE [n |-> n, e |-> e, d |-> q]
Reduced(n, e, q, g) == Quotient(n \div g, e, q \div g, TimesDivides(2, q \div g), TimesDivides(5, q \div g))

\* Decimal / Decimal(q) for an int q > 0
DecimalDividedBy(x, q) == Reduced(x.n, x.e, q, Gcd(x.n, q))

\* Decimal(str(f)) for a float f: str shows an integral float with one fractional digit
DecimalOfFloatStr(f) == IF f.e = 0 THEN [f EXCEPT !.n = 10 * f.n, !.e = 1] ELSE f

\* Decimal * Decimal
DecimalTimes(x, y) == [n |-> x.n * y.n, e |-> x.e + y.e, d |-> x.d * y.d]

IsNonBlank(line) == Strip(line) # ""

\* the first element of a sequence of optional values that is not None
FirstSome(opts) ==
    LET hits == { i \in 1..Len(opts) : opts[i] # None }
    IN IF hits = {} THEN None ELSE opts[Min(hits)]

-----------------------------------------------------------------------------
(* Header field extractors *)

\* [A-Za-z0-9\-_/] and [A-Z0-9\-_/]
CodeNoChars == UpperSet \cup LowerSet \cup DigitSet \cup { "-", "_", "/" }
UpperCodeNoChars == UpperSet \cup DigitSet \cup { "-", "_", "/" }

\* ^\d{1,2}[/\-]\d{1,2}[/\-]\d{2,4}$   (line 188)
date_shape ==
    << Bol, Cls(DigitSet, 1, 2), Cls({ "/", "-" }, 1, 1), Cls(DigitSet, 1, 2),
       Cls({ "/", "-" }, 1, 1), Cls(DigitSet, 2, 4), Eol >>

\* ^\d+\.?\d*$   (line 192)
pure_number == << Bol, Cls(DigitSet, 1, -1), Cls({ "." }, 0, 1), Cls(DigitSet, 0, -1), Eol >>

\* lines 199-204
invalid_labels ==
    << "total", "subtotal", "vat", "tax", "amount", "invoice", "proforma", "customer", "name",
       "address", "phone", "email", "ref", "reference", "date", "terms" >>
invalid_patterns ==
    << << Bol, Lit("page"), Cls(DigitSet, 0, -1), Eol >>,
       << Bol, Cls(DigitSet, 1, -1), Lit("of"), Cls(DigitSet, 1, -1), Eol >> >>
    \o [ k \in 1..Len(invalid_labels) |-> << Bol, Lit(invalid_labels[k]), Eol >> ]

\* lines 182-222; the candidates the extractors pass hold no point, so that
\* int(candidate) of line 195 does not raise
is_valid_code_no(candidate) ==
    IF candidate = "" \/ Len(candidate) < 2 THEN FALSE
    ELSE IF MatchStart(date_shape, candidate, FALSE).ok THEN FALSE
    ELSE IF MatchStart(pure_number, candidate, FALSE).ok
            /\ (Len(candidate) > 6 \/ IntOf(Keep(candidate, DigitSet)) > 100000) THEN FALSE
    ELSE IF \E k \in 1..Len(invalid_patterns) : MatchStart(invalid_patterns[k], candidate, TRUE).ok
    THEN FALSE
    ELSE IF \E i \in 1..Len(candidate) : Ch(candidate, i) \in UpperSet \cup LowerSet THEN TRUE
    ELSE IF (\E i \in 1..Len(candidate) : Ch(candidate, i) \in DigitSet) /\ Len(candidate) <= 8
    THEN TRUE
    ELSE MatchStart(<< Bol, Cls(UpperCodeNoChars, 3, 20), Eol >>, candidate, TRUE).ok

\* lines 149-162
code_no_separator == << Spaces0, Cls({ "\t", ":", "-" }, 0, 1), Spaces0 >>
code_no_value == << Open(1), Cls(CodeNoChars, 2, 30), Close(1) >>
space_or_end == Alt(<< << Cls(SpaceSet, 1, 1) >>, << Eol >> >>)
code_no_patterns ==
    << << Lit("Code"), Spaces0, Opt(<< Words(<< "No", "Number", "#" >>) >>) >>
          \o code_no_separator \o code_no_value,
       << Alt(<< << Lit("Customer"), Spaces0, Lit("Code") >>,
                 << Lit("Cust"), Cls({ "." }, 0, 1), Spaces0, Lit("Code") >> >>) >>
          \o code_no_separator \o code_no_value,
       << Bol, Words(<< "Code", "COD" >>), Spaces1 >> \o code_no_value \o << space_or_end >>,
       << Alt(<< << Bol >>, << Cls(SpaceSet, 1, 1) >> >>), Open(1), Cls(UpperSet, 1, 4),
          Cls(DigitSet, 2, 8), Cls(UpperSet, 0, 1), Close(1), space_or_end >>,
       << Lit("Code"), Spaces0, Lit(":"), Spaces0 >> \o code_no_value,
       << Lit("Code"), Spaces0, Lit("No"), Spaces0, Cls({ "[", "(" }, 0, 1), Spaces0 >>
          \o code_no_value \o << Spaces0, Cls({ "]", ")" }, 0, 1) >> >>

\* lines 167-174 and 250-254: the candidate of a match, when it is valid
ValidCandidate(candidate) == IF is_valid_code_no(candidate) THEN Some(candidate) ELSE None
CodeNoMatch(line, m) == IF m.ok THEN ValidCandidate(Strip(Group(line, m, 1))) ELSE None
CodeNoInLine(line, patterns) ==
    FirstSome([ k \in 1..Len(patterns) |-> CodeNoMatch(line, Search(patterns[k], line, TRUE)) ])

\* lines 231, 237, 243-247
customer_section == << Alt(<< << Lit("customer") >>, << Lit("client") >>,
                              << Lit("cust"), Cls({ "." }, 0, 1) >> >>) >>
seller_section == << Words(<< "seller", "vendor" >>) >>
other_section ==
    << Words(<< "description", "items", "qty", "rate", "amount", "invoice", "proforma" >>) >>
customer_code_patterns ==
    << << Words(<< "code", "ref" >>), Spaces0, Cls({ ":", "#" }, 0, 1), Spaces0,
          Open(1), Cls(UpperCodeNoChars, 3, 20), Close(1) >>,
       << Bol, Words(<< "code", "ref" >>), Spaces1, Open(1), Cls(UpperCodeNoChars, 3, 20), Close(1) >>,
       << Open(1), Cls(UpperSet, 2, 4), Cls(DigitSet, 3, 8), Close(1) >> >>

\* lines 229-256: the scan from line i on
RECURSIVE CustomerSectionFrom(_, _, _)
CustomerSectionLine(lines, i, found) ==
    IF found # None THEN found ELSE CustomerSectionFrom(lines, i + 1, TRUE)
CustomerSectionFrom(lines, i, in_customer_section) ==
    IF i > Len(lines) THEN None
    ELSE IF Search(customer_section, lines[i], TRUE).ok /\ ~Search(seller_section, lines[i], TRUE).ok
    THEN CustomerSectionFrom(lines, i + 1, TRUE)
    ELSE IF ~in_customer_section THEN CustomerSectionFrom(lines, i + 1, FALSE)
    ELSE IF Search(other_section, lines[i], TRUE).ok THEN None
    ELSE CustomerSectionLine(lines, i, CodeNoInLine(lines[i], customer_code_patterns))

extract_code_no_from_customer_section(lines) == CustomerSectionFrom(lines, 1, FALSE)

\* lines 164-180
CodeNoOr(found, lines) ==
    IF found # None THEN found ELSE extract_code_no_from_customer_section(lines)
extract_code_no_enhanced(lines) ==
    CodeNoOr(FirstSome([ i \in 1..Len(lines) |-> CodeNoInLine(lines[i], code_no_patterns) ]), lines)

CodeChars == UpperSet \cup DigitSet \cup { "-" }

\* a variant of lines 261-265 without the first pattern, the one with No, Number, # or .
invoice_patterns_without_label ==
    << << Words(<< "PI", "Invoice" >>), Spaces0, Cls({ ":", "-" }, 0, 1), Spaces0,
          Open(1), Cls(CodeChars, 3, 30), Close(1) >>,
       << Lit("PI"), Spaces0, Cls({ ":" }, 0, 1), Spaces0, Open(1), Cls(CodeChars, 3, 30), Close(1) >> >>

invoice_patterns ==
    << << Words(<< "PI", "Invoice" >>), Spaces0, Words(<< "No", "Number", "#", "." >>), Spaces0,
          Cls({ ":", "-" }, 0, 1), Spaces0, Open(1), Cls(CodeChars, 3, 30), Close(1) >>,
       << Words(<< "PI", "Invoice" >>), Spaces0, Cls({ ":", "-" }, 0, 1), Spaces0,
          Open(1), Cls(CodeChars, 3, 30), Close(1) >>,
       << Lit("PI"), Spaces0, Cls({ ":" }, 0, 1), Spaces0, Open(1), Cls(CodeChars, 3, 30), Close(1) >> >>

\* lines 263-270: the candidate a match yields
InvoiceCandidate(ok, candidate) ==
    IF ok /\ candidate # "" /\ Len(candidate) >= 3 THEN Some(candidate) ELSE None
InvoiceMatch(line, m) == InvoiceCandidate(m.ok, Strip(Group(line, m, 1)))

\* lines 261-271: the candidate one line yields
InvoiceNoInLine(line) ==
    FirstSome([ k \in 1..Len(invoice_patterns) |->
                  InvoiceMatch(line, Search(invoice_patterns[k], line, TRUE)) ])

extract_invoice_no(lines) ==
    FirstSome([ i \in 1..Len(lines) |-> InvoiceNoInLine(lines[i]) ])

customer_label == << Lit("Customer"), Spaces0, Lit("Name") >>
customer_pattern ==
    << Lit("Customer"), Spaces0, Lit("Name"), Spaces0, Cls({ "\t", ":" }, 0, 1), Spaces0,
       Open(1), Lazy(Dot(1, -1)), Close(1), Alt(<< << Spaces1, Lit("Date") >>, << Eol >> >>) >>
date_start == << Bol, Cls(DigitSet, 1, 2), Cls({ "/", "-" }, 1, 1) >>
competing_labels == << Bol, Words(<< "Tel", "Fax", "Email", "Phone", "Address", "Date" >>) >>

\* lines 280-282: the name on the label's line
NameOnLine(name) ==
    IF name # "" /\ ~MatchStart(date_start, name, FALSE).ok THEN Some(name) ELSE None
\* lines 283-286: the name on the line after the label
NameOnNextLine(next_line) ==
    IF next_line # "" /\ ~MatchStart(competing_labels, next_line, TRUE).ok
    THEN Some(next_line) ELSE None
CustomerNameMatch(lines, i, m) ==
    IF m.ok THEN NameOnLine(Strip(Group(lines[i], m, 1)))
    ELSE IF i + 1 <= Len(lines) THEN NameOnNextLine(Strip(lines[i + 1]))
    ELSE None

\* lines 277-286: the name line i yields
CustomerNameAt(lines, i) ==
    IF ~Search(customer_label, lines[i], TRUE).ok THEN None
    ELSE CustomerNameMatch(lines, i, Search(customer_pattern, lines[i], TRUE))

extract_customer_name(lines) ==
    FirstSome([ i \in 1..Len(lines) |-> CustomerNameAt(lines, i) ])

date_pattern ==
    << Alt(<< << Lit("Date") >>, << Lit("Invoice"), Spaces0, Lit("Date") >> >>), Spaces0,
       Cls({ "\t", ":" }, 0, 1), Spaces0,
       Open(1), Cls(DigitSet, 1, 2), Cls({ "/", "-" }, 1, 1), Cls(DigitSet, 1, 2),
       Cls({ "/", "-" }, 1, 1), Cls(DigitSet, 2, 4), Close(1) >>

DateMatch(line, m) == IF m.ok THEN Some(Group(line, m, 1)) ELSE None
extract_date(lines) ==
    FirstSome([ i \in 1..Len(lines) |-> DateMatch(lines[i], Search(date_pattern, lines[i], TRUE)) ])

\* lines 300-301
address_label ==
    << Alt(<< << Lit("P"), Cls({ "." }, 0, 1), Lit("O"), Cls({ "." }, 0, 1), Spaces0, Lit("B"),
                 Opt(<< Lit("OX") >>) >>,
              << Lit("Address") >> >>) >>
address_pattern ==
    address_label \o << Spaces0, Cls({ "\t", ":" }, 0, 1), Spaces0, Open(1), Lazy(Dot(1, -1)),
                        Close(1), Eol >>

\* lines 307, 309, 310, 315
address_end ==
    << Bol, Words(<< "Tel", "Fax", "Email", "Phone", "Cust", "Ref", "Date", "Del", "Kind" >>) >>
date_labels ==
    Alt(<< << Lit("Cust"), Spaces0, Lit("Ref") >>, << Lit("Ref"), Spaces0, Lit("Date") >>,
           << Lit("Del"), Cls({ "." }, 0, 1), Spaces0, Lit("Date") >> >>)
trailing_labels == << Spaces0, date_labels, Spaces0, Lit(":"), Dot(0, -1), Eol >>
inner_labels ==
    << Spaces1, date_labels, Spaces0, Lit(":"), Lazy(Dot(0, -1)),
       Ahead(<< Alt(<< << Spaces1, Cls(UpperSet, 1, 1) >>, << Eol >> >>) >>) >>

\* lines 305-312: the parts the lines j .. last add to the address
RECURSIVE AddressParts(_, _, _)
AddressPart(cleaned_line) == IF cleaned_line # "" THEN << cleaned_line >> ELSE << >>
AddressParts(lines, j, last) ==
    IF j > last \/ MatchStart(address_end, Strip(lines[j]), TRUE).ok THEN << >>
    ELSE (IF MatchStart(date_start, Strip(lines[j]), FALSE).ok THEN << >>
          ELSE AddressPart(Strip(Sub(trailing_labels, "", Strip(lines[j]), TRUE))))
         \o AddressParts(lines, j + 1, last)

\* lines 314-318
AddressOf(address) == IF address # "" THEN Some(address) ELSE None
JoinedAddress(address_parts) ==
    AddressOf(Strip(Sub(<< Spaces1 >>, " ",
                        Sub(inner_labels, "", JoinWithSpace(address_parts), TRUE), FALSE)))

\* lines 300-318: the address line i yields
AddressMatch(lines, i, m) ==
    IF ~m.ok THEN None
    ELSE JoinedAddress(AddressPart(Strip(Group(lines[i], m, 1)))
                       \o AddressParts(lines, i + 1, Min({ i + 5, Len(lines) })))
AddressAt(lines, i) ==
    IF ~Search(address_label, lines[i], TRUE).ok THEN None
    ELSE AddressMatch(lines, i, Search(address_pattern, lines[i], TRUE))

extract_address(lines) == FirstSome([ i \in 1..Len(lines) |-> AddressAt(lines, i) ])

\* line 324
phone_pattern ==
    << Words(<< "Tel", "Telephone", "Phone" >>), Spaces0, Cls({ "\t", ":" }, 0, 1), Spaces0,
       Open(1), Cls(DigitSet \cup { "+" }, 1, 1),
       Cls(DigitSet \cup SpaceSet \cup { "-", "/", "(", ")", ".", "," }, 5, -1), Close(1) >>

\* lines 325-328
PhoneOf(phone) == IF phone # "" /\ Len(phone) >= 7 THEN Some(phone) ELSE None
PhoneMatch(line, m) == IF m.ok THEN PhoneOf(Strip(Group(line, m, 1))) ELSE None
extract_phone(lines) ==
    FirstSome([ i \in 1..Len(lines) |-> PhoneMatch(lines[i], Search(phone_pattern, lines[i], TRUE)) ])

\* line 334
email_pattern ==
    << Open(1), Cls(WordSet \cup { ".", "-" }, 1, -1), Lit("@"), Cls(WordSet \cup { ".", "-" }, 1, -1),
       Lit("."), Cls(WordSet, 1, -1), Close(1) >>
EmailMatch(line, m) == IF m.ok THEN Some(Group(line, m, 1)) ELSE None
extract_email(lines) ==
    FirstSome([ i \in 1..Len(lines) |-> EmailMatch(lines[i], Search(email_pattern, lines[i], FALSE)) ])

\* lines 342-345, 351
reference_patterns ==
    << << Alt(<< << Lit("Reference") >>, << Lit("Cust"), Spaces0, Lit("Ref") >>,
                 << Lit("Ref"), Cls({ "." }, 0, 1) >> >>),
          Spaces0, Cls({ ":", "-" }, 0, 1), Spaces0, Open(1), Lazy(Dot(1, -1)), Close(1),
          Alt(<< << Spaces1, Lit("Date") >>, << Eol >> >>) >>,
       << Lit("Ref"), Spaces0, Cls({ ":", "-" }, 0, 1), Spaces0,
          Open(1), Cls(UpperSet \cup DigitSet \cup SpaceSet \cup { "-" }, 3, 30), Close(1) >> >>
reference_tail ==
    << Spaces0,
       Alt(<< << Lit("Date") >>, << Lit("Ref"), Spaces0, Lit("Date") >>,
              << Lit("Del"), Spaces0, Lit("Date") >> >>),
       Dot(0, -1), Eol >>

\* lines 348-353
ReferenceOf(candidate) == IF candidate # "" /\ Len(candidate) >= 2 THEN Some(candidate) ELSE None
ReferenceCandidate(candidate) ==
    IF candidate # "" /\ ~MatchStart(date_start, candidate, FALSE).ok
    THEN ReferenceOf(Strip(Sub(reference_tail, "", candidate, TRUE)))
    ELSE None
ReferenceMatch(line, m) == IF m.ok THEN ReferenceCandidate(Strip(Group(line, m, 1))) ELSE None
ReferenceInLine(line) ==
    FirstSome([ k \in 1..Len(reference_patterns) |->
                  ReferenceMatch(line, Search(reference_patterns[k], line, TRUE)) ])
extract_reference(lines) == FirstSome([ i \in 1..Len(lines) |-> ReferenceInLine(lines[i]) ])

\* the pattern of line 360 for one label
MoneyPattern(label) ==
    label \o << Spaces0, Cls({ ":", "=" }, 0, 1), Spaces0, Opt(<< Words(<< "TSH", "TZS", "UGX" >>) >>),
                Spaces0, Open(1), Cls(DigitSet \cup { "," }, 1, -1), Cls({ "." }, 0, 1),
                Cls(DigitSet, 0, -1), Close(1) >>

\* lines 361-364: the value of the digits and points kept from the match
MoneyValue(ok, cleaned) ==
    IF ~ok THEN [k |-> "none", v |-> None]
    ELSE IF cleaned = "" THEN [k |-> "return", v |-> None]
    ELSE IF DecimalRaises(cleaned) THEN [k |-> "none", v |-> None]
    ELSE [k |-> "return", v |-> Some(DecimalOf(cleaned))]
MoneyMatch(line, m) == MoneyValue(m.ok, Keep(Group(line, m, 1), DigitSet \cup { "." }))

\* lines 360-366 on one line: "none" (no match, or Decimal raised and the loop goes on),
\* or "return" with the value returned, which is None when nothing is left of the match
MoneyInLine(line, label) == MoneyMatch(line, Search(MoneyPattern(label), line, TRUE))

\* the result of the first (pattern, line) pair, in the order of the two loops, that returns
FirstReturn(results) ==
    LET hits == { c \in DOMAIN results : results[c].k = "return" }
    IN IF hits = {} THEN None
       ELSE results[CHOOSE c \in hits : \A d \in hits : c[1] < d[1] \/ (c[1] = d[1] /\ c[2] <= d[2])].v

\* lines 356-367
extract_monetary_value(lines, patterns) ==
    FirstReturn([ c \in (1..Len(patterns)) \X (1..Len(lines)) |->
                    MoneyInLine(lines[c[2]], patterns[c[1]]) ])

subtotal_labels == << << Lit("Net"), Spaces0, Lit("Value") >>, << Lit("Subtotal") >>,
                      << Lit("Net"), Spaces0, Lit("Amount") >> >>
tax_labels == << << Lit("VAT") >>, << Lit("Tax") >>, << Lit("GST") >> >>
total_labels == << << Lit("Gross"), Spaces0, Lit("Value") >>, << Lit("Grand"), Spaces0, Lit("Total") >>,
                   << Lit("Total"), Spaces0, Lit("Amount") >> >>

-----------------------------------------------------------------------------
(* parse_invoice_data *)

anchor_pattern ==
    << Alt(<< << Lit("Proforma"), Spaces1, Lit("Invoice") >>, << Lit("PI"), Spaces0, Lit("No") >>,
              << Lit("Code"), Spaces0, Lit("No") >> >>) >>

\* line 102
StripAll(pieces) == [ k \in 1..Len(pieces) |-> Strip(pieces[k]) ]
LinesOf(txt) == SelectSeq(StripAll(SplitLines(NormalizeNewlines(txt, 1, Len(txt)))), IsNonBlank)

\* lines 105-113
FromFirst(lines, hits) == SubSeq(lines, IF hits = {} THEN 1 ELSE Min(hits), Len(lines))
ExtractionLines(lines) ==
    FromFirst(lines, { i \in 1..Len(lines) : Search(anchor_pattern, lines[i], TRUE).ok })

-----------------------------------------------------------------------------
(* Line items *)

unit_words == << "PCS", "NOS", "KG", "HR", "LTR", "PC", "UNT", "BOX", "SET", "UNIT", "PIECES",
                 "TYRE", "TIRE" >>

\* [\d,]+\.?\d{2}
amount == << Cls(DigitSet \cup { "," }, 1, -1), Cls({ "." }, 0, 1), Cls(DigitSet, 2, 2) >>

\* \d+\.?\d*%
percentage == << Cls(DigitSet, 1, -1), Cls({ "." }, 0, 1), Cls(DigitSet, 0, -1), Lit("%") >>

\* s.replace(',', '')
RemoveCommas(s) == Keep(s, { Ch(s, i) : i \in 1..Len(s) } \ { "," })

\* lines 684-693
clean_description_patterns ==
    [spaces |-> << Spaces1 >>,
     edges |-> << Alt(<< << Bol, Cls(SpaceSet \cup { "-" }, 0, -1) >>,
                         << Cls(SpaceSet \cup { "-" }, 0, -1), Eol >> >>) >>,
     symbols |-> << Spaces1, Cls({ "-", "*", "." }, 1, 1), Spaces1 >>]

noise_words == << "FOR", "CAR", "TYRES", "RIMS", "SMALL" >>

\* re.sub(r'\b' + word + r'\b', '', description, flags=re.I).strip()
RemoveWord(description, word) ==
    Strip(Sub(<< WordBoundary, Lit(word), WordBoundary >>, "", description, TRUE))

\* lines 696-698
RECURSIVE RemoveWords(_, _)
RemoveWords(description, words) ==
    IF words = << >> THEN description
    ELSE RemoveWords(RemoveWord(description, Head(words)), Tail(words))

\* lines 678-700
clean_description(description) ==
    IF description = "" THEN ""
    ELSE RemoveWords(
           Strip(Sub(percentage, "",
             Sub(clean_description_patterns.symbols, " ",
               Sub(clean_description_patterns.edges, "",
                 Strip(Sub(clean_description_patterns.spaces, " ", description, FALSE)),
                 FALSE),
               FALSE),
             FALSE)),
           noise_words)

\* lines 502-503, 530-531, 564-565, 650-651
WithoutCode(item_code, description) ==
    IF TruthyStr(item_code) /\ Contains(description, Val(item_code))
    THEN Strip(ReplaceFirst(description, Val(item_code), ""))
    ELSE description

\* lines 480-484
code_pattern == << WordBoundary, Open(1), Cls(DigitSet, 4, 15), Close(1), WordBoundary >>
CodeMatch(code, full_text, m) == IF m.ok THEN Some(Group(full_text, m, 1)) ELSE code
ItemCode(code, full_text) ==
    IF TruthyStr(code) THEN code ELSE CodeMatch(code, full_text, Search(code_pattern, full_text, FALSE))

\* lines 555-558, 606-609
unit_pattern == << WordBoundary, Open(1), Words(unit_words), Close(1), WordBoundary >>
UnitMatch(txt, m) == IF m.ok THEN Some(Upper(Group(txt, m, 1))) ELSE None
UnitIn(txt) == UnitMatch(txt, Search(unit_pattern, txt, TRUE))

\* lines 572-573, 658-659
WithoutUnit(description, unit) ==
    IF TruthyStr(unit) THEN RemoveWord(description, Val(unit)) ELSE description

\* lines 576, 662
WithoutPercentages(description) == Strip(Sub(percentage, "", description, FALSE))

\* for ...: description = description.replace(original, '', 1).strip()   (lines 568-569, 654-655)
RECURSIVE RemoveEach(_, _)
RemoveEach(description, originals) ==
    IF originals = << >> THEN description
    ELSE RemoveEach(Strip(ReplaceFirst(description, Head(originals), "")), Tail(originals))

Reversed(seq) == [ k \in 1..Len(seq) |-> seq[Len(seq) + 1 - k] ]

\* line 491
pattern_complete ==
    << Bol, Open(1), Lazy(Dot(1, -1)), Close(1), Spaces1, Open(2), Words(unit_words), Close(2),
       Spaces1, Open(3), Cls(DigitSet, 1, -1), Close(3), Spaces1, Open(4) >> \o amount \o
    << Close(4), Spaces1, Open(5) >> \o amount \o << Close(5), Eol >>

\* line 517
pattern_with_unit ==
    << Bol, Open(1), Lazy(Dot(1, -1)), Close(1), Spaces1, Open(2), Words(unit_words), Close(2),
       Spaces1, Open(3), Cls(DigitSet, 1, -1), Close(3), Spaces1, Open(4) >> \o amount \o
    << Close(4) >>

\* line 545
pattern_basic ==
    << Open(1), Cls(DigitSet, 1, -1), Close(1), Spaces1, Open(2) >> \o amount \o << Close(2) >>

\* line 592
number_pattern ==
    << Open(1), Cls(DigitSet \cup { "," }, 1, -1), Cls({ "." }, 0, 1), Cls(DigitSet, 0, -1), Close(1) >>

\* a variant of tier 1 that computes the value from rate and quantity, as tier 2 does
ItemComplete_recomputed(item_code, txt, m) ==
    [code |-> item_code,
     description |-> clean_description(WithoutCode(item_code, Strip(Group(txt, m, 1)))),
     unit |-> Some(Upper(Group(txt, m, 2))),
     qty |-> IntOf(Group(txt, m, 3)),
     rate |-> Some(DecimalOf(RemoveCommas(Group(txt, m, 4)))),
     value |-> Some(DecimalTimes(DecimalOf(RemoveCommas(Group(txt, m, 4))),
                                 DecimalOfInt(IntOf(Group(txt, m, 3)))))]

\* lines 494-514
ItemComplete(item_code, txt, m) ==
    [code |-> item_code,
     description |-> clean_description(WithoutCode(item_code, Strip(Group(txt, m, 1)))),
     unit |-> Some(Upper(Group(txt, m, 2))),
     qty |-> IntOf(Group(txt, m, 3)),
     rate |-> Some(DecimalOf(RemoveCommas(Group(txt, m, 4)))),
     value |-> Some(DecimalOf(RemoveCommas(Group(txt, m, 5))))]

\* lines 520-542
ItemWithUnit(item_code, txt, m) ==
    [code |-> item_code,
     description |-> clean_description(WithoutCode(item_code, Strip(Group(txt, m, 1)))),
     unit |-> Some(Upper(Group(txt, m, 2))),
     qty |-> IntOf(Group(txt, m, 3)),
     rate |-> Some(DecimalOf(RemoveCommas(Group(txt, m, 4)))),
     value |-> Some(DecimalTimes(DecimalOf(RemoveCommas(Group(txt, m, 4))),
                                 DecimalOfInt(IntOf(Group(txt, m, 3)))))]

\* lines 548-587
ItemBasic(item_code, full_text, matches_basic, unit) ==
    [code |-> item_code,
     description |->
        clean_description(WithoutPercentages(WithoutUnit(
            RemoveEach(WithoutCode(item_code, full_text),
                       Reversed([ k \in 1..Len(matches_basic) |-> Group0(full_text, matches_basic[k]) ])),
            unit))),
     unit |-> unit,
     qty |-> IntOf(Group(full_text, matches_basic[1], 1)),
     rate |-> Some(DecimalOf(RemoveCommas(Group(full_text, matches_basic[2], 2)))),
     value |-> Some(DecimalTimes(DecimalOf(RemoveCommas(Group(full_text, matches_basic[2], 2))),
                                 DecimalOfInt(IntOf(Group(full_text, matches_basic[1], 1)))))]

\* lines 591-603: the numbers of the text; one that float() rejects is skipped
IsNumber(original) == ~DecimalRaises(RemoveCommas(original))
NumberRecord(original, num) ==
    [value |-> num, original |-> original, is_integer |-> num.e = 0 /\ num.n < 10000]
NumberOf(original) == NumberRecord(original, FloatOf(DecimalOf(RemoveCommas(original))))
NumbersOf(originals) == [ k \in 1..Len(originals) |-> NumberOf(originals[k]) ]
Numbers(txt, number_matches) ==
    NumbersOf(SelectSeq([ k \in 1..Len(number_matches) |-> Group(txt, number_matches[k], 1) ],
                        IsNumber))

\* lines 612-613
IsQuantity(num) == num.is_integer /\ 0 < num.value.n /\ num.value.n < 1000
IsPotentialRate(num) == ~num.is_integer \/ ~FloatLess(num.value, DecimalOfInt(1000))

\* min([q['value'] for q in quantities]), max([r['value'] for r in potential_rates])
Smallest(nums) == Min({ nums[k].value.n : k \in 1..Len(nums) })
Largest(nums) ==
    CHOOSE v \in { nums[k].value : k \in 1..Len(nums) } :
        \A k \in 1..Len(nums) : ~FloatLess(v, nums[k].value)

\* lines 621-631
QuantityAndRate(quantity, largest_value) ==
    IF FloatLess(DecimalOfInt(1000), largest_value)
    THEN [quantity |-> quantity, value |-> DecimalOfFloatStr(largest_value),
          rate |-> DecimalDividedBy(DecimalOfFloatStr(largest_value), quantity)]
    ELSE [quantity |-> quantity, rate |-> DecimalOfFloatStr(largest_value),
          value |-> DecimalTimes(DecimalOfFloatStr(largest_value), DecimalOfInt(quantity))]

\* lines 616-644
Amounts(quantities, potential_rates) ==
    IF quantities # << >> /\ potential_rates # << >>
    THEN QuantityAndRate(Smallest(quantities), Largest(potential_rates))
    ELSE IF quantities # << >>
    THEN [quantity |-> Smallest(quantities), rate |-> DecimalOfInt(0), value |-> DecimalOfInt(0)]
    ELSE IF potential_rates # << >>
    THEN [quantity |-> 1, rate |-> DecimalOfFloatStr(Largest(potential_rates)),
          value |-> DecimalOfFloatStr(Largest(potential_rates))]
    ELSE [quantity |-> 1, rate |-> DecimalOfInt(0), value |-> DecimalOfInt(0)]

\* sorted(numbers, key=lambda x: len(x['original']), reverse=True): longest first, and
\* numbers of one length in the order they have in the text
LongestFirst(nums) ==
    [ p \in 1..Len(nums) |->
        nums[CHOOSE k \in 1..Len(nums) :
               Cardinality({ j \in 1..Len(nums) :
                               \/ Len(nums[j].original) > Len(nums[k].original)
                               \/ Len(nums[j].original) = Len(nums[k].original) /\ j < k }) = p - 1].original ]

\* lines 664-676
ItemFallback(item_code, description, unit, amounts) ==
    IF description = "" \/ Len(description) < 2 THEN None
    ELSE Some([code |-> item_code, description |-> clean_description(description), unit |-> unit,
               qty |-> amounts.quantity, rate |-> Some(amounts.rate), value |-> Some(amounts.value)])

\* lines 611-662
FallbackWith(item_code, full_text, unit, numbers) ==
    ItemFallback(item_code,
                 WithoutPercentages(WithoutUnit(
                     RemoveEach(WithoutCode(item_code, full_text), LongestFirst(numbers)), unit)),
                 unit,
                 Amounts(SelectSeq(numbers, IsQuantity), SelectSeq(numbers, IsPotentialRate)))

\* lines 589-609
Fallback(item_code, full_text, cleaned_text) ==
    FallbackWith(item_code, full_text, UnitIn(cleaned_text),
                 Numbers(cleaned_text, FindAll(number_pattern, cleaned_text, FALSE)))

\* lines 544-548
TryBasic(item_code, full_text, cleaned_text, matches_basic) ==
    IF Len(matches_basic) >= 2
    THEN Some(ItemBasic(item_code, full_text, matches_basic, UnitIn(full_text)))
    ELSE Fallback(item_code, full_text, cleaned_text)

\* lines 516-520
TryWithUnit(item_code, full_text, cleaned_text, match_with_unit) ==
    IF match_with_unit.ok THEN Some(ItemWithUnit(item_code, cleaned_text, match_with_unit))
    ELSE TryBasic(item_code, full_text, cleaned_text, FindAll(pattern_basic, full_text, FALSE))

\* lines 490-494
TryComplete(item_code, full_text, cleaned_text, match_complete) ==
    IF match_complete.ok THEN Some(ItemComplete(item_code, cleaned_text, match_complete))
    ELSE TryWithUnit(item_code, full_text, cleaned_text, Search(pattern_with_unit, cleaned_text, FALSE))

ParseCleaned(item_code, full_text, cleaned_text) ==
    TryComplete(item_code, full_text, cleaned_text, Search(pattern_complete, cleaned_text, FALSE))

\* lines 479-488
ParseFullText(code, full_text) ==
    ParseCleaned(ItemCode(code, full_text), full_text,
                 Strip(Sub(<< Spaces0 >> \o percentage \o << Spaces0 >>, " ", full_text, FALSE)))

\* lines 465-676
parse_item_complete(item_lines, item_number) ==
    IF item_lines = << >> THEN None
    ELSE ParseFullText(item_lines[1].code,
                       JoinWithSpace([ k \in 1..Len(item_lines) |-> item_lines[k].line ]))

\* lines 379-387
header_keywords ==
    << << WordBoundary,
          Alt(<< << Lit("Sr") >>,
                 << Lit("S"), Cls({ "." }, 0, 1), Lit("N"), Cls({ "o" }, 0, 1), Cls({ "." }, 0, 1) >>,
                 << Lit("No"), Cls({ "." }, 0, 1) >>,
                 << Lit("#") >> >>),
          WordBoundary >>,
       << WordBoundary,
          Alt(<< << Lit("Item"), Spaces0, Lit("Code") >>, << Lit("Code") >>, << Lit("Item") >> >>),
          WordBoundary >>,
       << WordBoundary, Words(<< "Description", "Desc" >>), WordBoundary >>,
       << WordBoundary, Words(<< "Type", "Unit" >>), WordBoundary >>,
       << WordBoundary, Words(<< "Qty", "Quantity" >>), WordBoundary >>,
       << WordBoundary,
          Alt(<< << Lit("Rate") >>, << Lit("Price") >>, << Lit("Unit"), Spaces0, Lit("Price") >> >>),
          WordBoundary >>,
       << WordBoundary, Words(<< "Value", "Amount", "Total" >>), WordBoundary >> >>

\* line 389
keyword_count(line) ==
    Cardinality({ k \in 1..Len(header_keywords) : Search(header_keywords[k], line, TRUE).ok })

\* lines 376-393: the index of the table header, 0 when there is none
FirstOrZero(hits) == IF hits = {} THEN 0 ELSE Min(hits)
table_start(lines) == FirstOrZero({ i \in 1..Len(lines) : keyword_count(lines[i]) >= 4 })

\* line 408
section_break ==
    << Alt(<< << Lit("Net"), Spaces0, Lit("Value") >>,
              << Lit("Gross"), Spaces0, Lit("Value") >>,
              << Lit("Grand"), Spaces0, Lit("Total") >>,
              << Lit("Total"), Spaces0, Lit("Amount") >>,
              << Lit("Sub"), Dot(0, -1), Lit("Total") >>,
              << Lit("Page"), Spaces0, Cls(DigitSet, 1, -1) >>,
              << Lit("Customer"), Spaces0, Lit("Information") >>,
              << Lit("Thank") >>,
              << Lit("Note"), Cls({ "s" }, 0, 1) >> >>) >>

\* lines 418 and 433
item_start_prefix ==
    << Bol, Open(1), Cls(DigitSet, 1, -1), Close(1), Cls({ "." }, 0, 1), Spaces1,
       Open(2), Cls(DigitSet, 4, 15), Close(2), Spaces1 >>
item_start == item_start_prefix \o << Open(3), Dot(1, -1), Close(3), Eol >>
item_simple ==
    << Bol, Open(1), Cls(DigitSet, 1, -1), Close(1), Cls({ "." }, 0, 1), Spaces1,
       Open(2), Dot(1, -1), Close(2), Eol >>

\* a variant of lines 423-424 without the test of the description
Emit_any_description(items, parsed_item) ==
    IF parsed_item # None THEN Append(items, Val(parsed_item)) ELSE items

\* lines 423-424, 440-441, 458-459
Emit(items, parsed_item) ==
    IF parsed_item # None /\ Val(parsed_item).description # ""
    THEN Append(items, Val(parsed_item)) ELSE items

\* lines 421-425, 438-442, 456-460: the items once the item being built is completed
Flushed(scan) ==
    IF scan.current_item_lines # << >> /\ scan.current_item_number # None
    THEN Emit(scan.items, parse_item_complete(scan.current_item_lines, Val(scan.current_item_number)))
    ELSE scan.items

\* lines 418-451: the scanner after one line
ScanLineWith(scan, line, flushed, item_start_match, item_simple_match, prefix_match) ==
    IF item_start_match.ok
    THEN [current_item_lines |-> << [code |-> Some(Group(line, item_start_match, 2)),
                                     line |-> Group(line, item_start_match, 3)] >>,
          current_item_number |-> Some(Group(line, item_start_match, 1)),
          items |-> flushed]
    ELSE IF item_simple_match.ok /\ ~prefix_match.ok
    THEN [current_item_lines |-> << [code |-> None, line |-> Group(line, item_simple_match, 2)] >>,
          current_item_number |-> Some(Group(line, item_simple_match, 1)),
          items |-> flushed]
    ELSE IF scan.current_item_lines # << >>
    THEN [scan EXCEPT !.current_item_lines = Append(@, [code |-> None, line |-> line])]
    ELSE scan
ScanLine(scan, line) ==
    ScanLineWith(scan, line, Flushed(scan), MatchStart(item_start, line, FALSE),
                 MatchStart(item_simple, line, FALSE), MatchStart(item_start_prefix, line, FALSE))

\* lines 404-460: the loop from line i on, then the last item
RECURSIVE ScanFrom(_, _, _)
ScanFrom(lines, i, scan) ==
    IF i > Len(lines) \/ Search(section_break, Strip(lines[i]), TRUE).ok THEN Flushed(scan)
    ELSE IF Strip(lines[i]) = "" THEN ScanFrom(lines, i + 1, scan)
    ELSE ScanFrom(lines, i + 1, ScanLine(scan, Strip(lines[i])))

\* lines 395-402
ScanAfter(lines, header) ==
    IF header = 0 THEN << >>
    ELSE ScanFrom(lines, header + 1,
                  [current_item_lines |-> << >>, current_item_number |-> None, items |-> << >>])

\* lines 369-463
extract_line_items_corrected(lines) == ScanAfter(lines, table_start(lines))

\* lines 116-142
ParseLines(extraction_lines) ==
    [invoice_no |-> extract_invoice_no(extraction_lines),
     code_no |-> extract_code_no_enhanced(extraction_lines),
     date |-> extract_date(extraction_lines),
     customer_name |-> extract_customer_name(extraction_lines),
     phone |-> extract_phone(extraction_lines),
     email |-> extract_email(extraction_lines),
     address |-> extract_address(extraction_lines),
     reference |-> extract_reference(extraction_lines),
     subtotal |-> extract_monetary_value(extraction_lines, subtotal_labels),
     tax |-> extract_monetary_value(extraction_lines, tax_labels),
     total |-> extract_monetary_value(extraction_lines, total_labels),
     items |-> extract_line_items_corrected(extraction_lines)]

parse_invoice_data(txt) ==
    IF txt = "" \/ Strip(txt) = ""
    THEN [invoice_no |-> None, code_no |-> None, date |-> None, customer_name |-> None,
          phone |-> None, email |-> None, address |-> None, reference |-> None,
          subtotal |-> None, tax |-> None, total |-> None, items |-> << >>]
    ELSE ParseLines(ExtractionLines(LinesOf(txt)))

-----------------------------------------------------------------------------
(* Inputs: byte buffers and filenames *)

PDF_MAGIC == << 37, 80, 68, 70 >>          \* b'%PDF'

\* each of the first four positions holds the byte the signature has there or another one
ByteAt(i) == IF i <= Len(PDF_MAGIC) THEN { PDF_MAGIC[i], 0 } ELSE { 0 }

ByteBuffers ==
    UNION { { b \in [1..n -> { 0, 37, 68, 70, 80 }] : \A i \in 1..n : b[i] \in ByteAt(i) }
            : n \in 0..MaxBytes }

Filenames ==
    { "", "a.pdf", "A.PDF", "a.txt", "apdf", "a.jpg", "a.JPG", "a.jpeg", "a.png",
      "a.gif", "a.tiff", "a.bmp", "a.tif", "a.pdf.png", "a.png.pdf" }

\* line 710
is_pdf(bytes, name) ==
    \/ EndsWith(Lower(name), ".pdf")
    \/ (Len(bytes) > 4 /\ SubSeq(bytes, 1, 4) = PDF_MAGIC)

\* a variant of line 711 without .lower(): the extension is compared as written
is_image_case_sensitive(name) ==
    \E ext \in { ".jpg", ".jpeg", ".png", ".gif", ".tiff", ".bmp" } : EndsWith(name, ext)

\* line 711
is_image(name) ==
    \E ext \in { ".jpg", ".jpeg", ".png", ".gif", ".tiff", ".bmp" } : EndsWith(Lower(name), ext)

\* the page texts each backend may find in the file, page by page
table_header == "Sr No Item Code Description Type Qty Rate Value"
Documents ==
    { << >>,
      << "" >>,
      << " " >>,
      << "Hello" >>,
      << "Date: 25/10/2025\nTel: 0754 123456" >>,
      << "PI No: 1765632" >>,
      << "", "Customer Name: STATEOIL" >>,
      << "Grand Total: 5,021.28" >>,
      << "Grand Total: 0.00" >>,
      << table_header \o "\n1 21004 WHEEL BALANCE PCS 4 12.00 48.00" >>,
      << table_header, "1 21004 FOR PCS 4 12.00 48.00\n2 OIL 3 0" >>,
      << table_header, "1 21004 FOR PCS 4 12.00 48.00" >>,
      << "PI No: 1765632\r\nCode No: A01696\nDate: 25/10/2025",
         "Net Value: 100.00\nVAT: 18.00\nGrand Total: 118.00" >> }

\* str(e) of the exceptions a backend may raise
ExceptionMessages == { "", "cannot open broken document" }

\* the text a backend collects from the pages of a document   (lines 36-39, 59-62)
RECURSIVE JoinPages(_)
JoinPages(d) ==
    IF d = << >> THEN ""
    ELSE (IF Head(d) # "" THEN Head(d) \o "\n" ELSE "") \o JoinPages(Tail(d))

\* the texts that can reach the parser: what one backend collected, or the blank
\* text PyMuPDF left behind followed by what PyPDF2 collected   (lines 42-47, 53)
AllTexts ==
    LET joined == { JoinPages(d) : d \in Documents }
        blank == { t \in joined : Strip(t) = "" }
    IN { a \o b : a \in blank, b \in joined }

\* the parses of those texts, computed once
Parsed == [ t \in AllTexts |-> parse_invoice_data(t) ]
ParseOf(t) == IF t \in AllTexts THEN Parsed[t] ELSE parse_invoice_data(t)

-----------------------------------------------------------------------------
(* The results of extract_from_bytes *)

EmptyDict == << >>

\* a variant of the failure results in which raw_text is always the empty string
Failure_without_text(error, message, raw_text) ==
    [success |-> FALSE, error |-> Some(error), message |-> message, ocr_available |-> FALSE,
     header |-> EmptyDict, items |-> << >>, raw_text |-> ""]

Failure(error, message, raw_text) ==
    [success |-> FALSE, error |-> Some(error), message |-> message, ocr_available |-> FALSE,
     header |-> EmptyDict, items |-> << >>, raw_text |-> raw_text]

\* float(x) if x else None   (lines 759-761)
FloatOrNone(o) == IF TruthyDecimal(o) THEN Some(FloatOf(Val(o))) ELSE None

\* lines 750-767
HeaderOf(p) ==
    [invoice_no |-> p.invoice_no, code_no |-> p.code_no, date |-> p.date,
     customer_name |-> p.customer_name, phone |-> p.phone, email |-> p.email,
     address |-> p.address, reference |-> p.reference,
     subtotal |-> FloatOrNone(p.subtotal), tax |-> FloatOrNone(p.tax), total |-> FloatOrNone(p.total),
     payment_method |-> None, delivery_terms |-> None, remarks |-> None, attended_by |-> None,
     kind_attention |-> None]

\* lines 770-779
FormattedItems(p) ==
    [ k \in 1..Len(p.items) |->
        [description |-> p.items[k].description, qty |-> p.items[k].qty, unit |-> p.items[k].unit,
         code |-> p.items[k].code,
         value |-> IF TruthyDecimal(p.items[k].value) THEN FloatOf(Val(p.items[k].value))
                   ELSE DecimalOfInt(0),
         rate |-> FloatOrNone(p.items[k].rate)] ]

\* lines 782-785
has_data(header, formatted_items) ==
    \/ TruthyStr(header.customer_name)
    \/ TruthyStr(header.invoice_no)
    \/ Len(formatted_items) > 0
    \/ TruthyDecimal(header.total)

\* lines 787-805
ResultOf(p, raw_text) ==
    IF has_data(HeaderOf(p), FormattedItems(p))
    THEN [success |-> TRUE, error |-> None, message |-> "Invoice data extracted successfully",
          ocr_available |-> FALSE, header |-> HeaderOf(p), items |-> FormattedItems(p),
          raw_text |-> raw_text]
    ELSE Failure("parsing_failed", "Could not extract structured data from PDF.", raw_text)

\* a variant of lines 74-81 that reports PyMuPDF's reason alone when both backends failed
error_msg_first_reason(fitz_present, pypdf2_present, fitz_err, pdf2_err) ==
    IF ~fitz_present /\ ~pypdf2_present
    THEN "No PDF extraction library available. Install PyMuPDF or PyPDF2."
    ELSE IF TruthyStr(fitz_err) THEN Val(fitz_err)
    ELSE IF TruthyStr(pdf2_err) THEN Val(pdf2_err)
    ELSE "Unknown PDF extraction error"

\* lines 74-81
error_msg(fitz_present, pypdf2_present, fitz_err, pdf2_err) ==
    IF ~fitz_present /\ ~pypdf2_present
    THEN "No PDF extraction library available. Install PyMuPDF or PyPDF2."
    ELSE IF TruthyStr(fitz_err) /\ TruthyStr(pdf2_err)
    THEN "PDF extraction failed - PyMuPDF: " \o Val(fitz_err) \o ". PyPDF2: " \o Val(pdf2_err)
    ELSE IF TruthyStr(fitz_err) THEN Val(fitz_err)
    ELSE IF TruthyStr(pdf2_err) THEN Val(pdf2_err)
    ELSE "Unknown PDF extraction error"

\* text and text.strip()   (lines 42, 64)
HasText(txt) == txt # "" /\ Strip(txt) # ""

\* text += page_text + "\n" when page_text is not empty   (lines 38-39, 61-62)
AppendPage(txt, page_text) == IF page_text # "" THEN txt \o page_text \o "\n" ELSE txt

-----------------------------------------------------------------------------
(* The state machine: one call of extract_from_bytes *)

Init ==
    /\ file_bytes \in ByteBuffers
    /\ filename \in Filenames
    /\ fitz \in BOOLEAN
    /\ PyPDF2 \in BOOLEAN
    /\ pc = "start"
    /\ text = ""
    /\ fitz_error = None
    /\ pdf2_error = None
    /\ doc = "none"
    /\ pages = << >>
    /\ calls = << >>
    /\ raised = None
    /\ parsed = None
    /\ result = None
    /\ FramesIdle

Return(r) == result' = Some(r) /\ pc' = "done"

\* a variant of extract_from_bytes without the test of lines 704-708
CheckEmpty_skipped ==
    /\ pc = "start"
    /\ pc' = "classify"
    /\ UNCHANGED << file_bytes, filename, fitz, PyPDF2, text, fitz_error, pdf2_error, doc, pages,
                    calls, raised, parsed, result >>
    /\ UNCHANGED frames

\* extract_from_bytes, lines 704-708
CheckEmpty ==
    /\ pc = "start"
    /\ IF file_bytes = << >>
       THEN Return(Failure("empty_file", "File is empty.", ""))
       ELSE pc' = "classify" /\ UNCHANGED result
    /\ UNCHANGED << file_bytes, filename, fitz, PyPDF2, text, fitz_error, pdf2_error, doc, pages,
                    calls, raised, parsed >>
    /\ UNCHANGED frames

\* extract_from_bytes, lines 710-729
Classify ==
    /\ pc = "classify"
    /\ IF is_image(filename)
       THEN Return(Failure("image_file_not_supported", "Image files are not supported.", ""))
       ELSE IF ~is_pdf(file_bytes, filename)
       THEN Return(Failure("unsupported_file_type", "Please upload a PDF file.", ""))
       ELSE pc' = "fitz" /\ UNCHANGED result
    /\ UNCHANGED << file_bytes, filename, fitz, PyPDF2, text, fitz_error, pdf2_error, doc, pages,
                    calls, raised, parsed >>
    /\ UNCHANGED frames

\* extract_text_from_pdf, line 33: fitz is None
FitzUnavailable ==
    /\ pc = "fitz"
    /\ ~fitz
    /\ pc' = "pypdf2"
    /\ UNCHANGED << file_bytes, filename, fitz, PyPDF2, text, fitz_error, pdf2_error, doc, pages,
                    calls, raised, parsed, result >>
    /\ UNCHANGED frames

\* the except clause of lines 48-51
FitzExcept(e) ==
    /\ fitz_error' = Some(e)
    /\ text' = ""
    /\ pc' = "pypdf2"

\* line 35: fitz.open returns a document or raises
FitzOpen ==
    /\ pc = "fitz"
    /\ fitz
    /\ calls' = Append(calls, "fitz")
    /\ \/ \E d \in Documents :
            /\ doc' = "open"
            /\ pages' = d
            /\ pc' = "fitz_pages"
            /\ UNCHANGED << text, fitz_error >>
       \/ \E e \in ExceptionMessages :
            /\ FitzExcept(e)
            /\ UNCHANGED << doc, pages >>
    /\ UNCHANGED << file_bytes, filename, fitz, PyPDF2, pdf2_error, raised, parsed, result >>
    /\ UNCHANGED frames

\* lines 36-39: page.get_text returns the text of the next page or raises
FitzGetText ==
    /\ pc = "fitz_pages"
    /\ pages # << >>
    /\ \/ /\ text' = AppendPage(text, Head(pages))
          /\ pages' = Tail(pages)
          /\ UNCHANGED << pc, fitz_error >>
       \/ \E e \in ExceptionMessages :
            /\ FitzExcept(e)
            /\ UNCHANGED pages
    /\ UNCHANGED << file_bytes, filename, fitz, PyPDF2, pdf2_error, doc, calls, raised, parsed, result >>
    /\ UNCHANGED frames

\* a variant of lines 40-47 without the early return of line 43: the text PyMuPDF found
\* is dropped and PyPDF2 is tried next
FitzClose_without_return ==
    /\ pc = "fitz_pages"
    /\ pages = << >>
    /\ doc' = "closed"
    /\ pc' = "pypdf2"
    /\ IF HasText(text)
       THEN text' = "" /\ UNCHANGED fitz_error
       ELSE fitz_error' = Some("No text found in PDF (PyMuPDF)") /\ UNCHANGED text
    /\ UNCHANGED << file_bytes, filename, fitz, PyPDF2, pdf2_error, pages, calls, raised,
                    parsed, result >>
    /\ UNCHANGED frames

\* lines 40-47: the loop is over, doc.close(), then return text or note the failure
FitzClose ==
    /\ pc = "fitz_pages"
    /\ pages = << >>
    /\ doc' = "closed"
    /\ IF HasText(text)
       THEN pc' = "check_text" /\ UNCHANGED fitz_error
       ELSE pc' = "pypdf2" /\ fitz_error' = Some("No text found in PDF (PyMuPDF)")
    /\ UNCHANGED << file_bytes, filename, fitz, PyPDF2, text, pdf2_error, pages, calls, raised,
                    parsed, result >>
    /\ UNCHANGED frames

\* line 53
TryPyPDF2 == PyPDF2 /\ Strip(text) = ""

PyPDF2Skipped ==
    /\ pc = "pypdf2"
    /\ ~TryPyPDF2
    /\ pc' = "compose"
    /\ UNCHANGED << file_bytes, filename, fitz, PyPDF2, text, fitz_error, pdf2_error, doc, pages,
                    calls, raised, parsed, result >>
    /\ UNCHANGED frames

\* lines 55-57: PdfReader returns a reader or raises
PyPDF2Open ==
    /\ pc = "pypdf2"
    /\ TryPyPDF2
    /\ calls' = Append(calls, "PyPDF2")
    /\ \/ \E d \in Documents :
            /\ pages' = d
            /\ IF Len(d) = 0
               THEN pdf2_error' = Some("PDF has no pages") /\ pc' = "compose"
               ELSE pc' = "pypdf2_pages" /\ UNCHANGED pdf2_error
       \/ \E e \in ExceptionMessages :
            /\ pdf2_error' = Some(e)
            /\ pc' = "compose"
            /\ UNCHANGED pages
    /\ UNCHANGED << file_bytes, filename, fitz, PyPDF2, text, fitz_error, doc, raised, parsed, result >>
    /\ UNCHANGED frames

\* lines 59-62: page.extract_text returns the text of the next page or raises
PyPDF2ExtractText ==
    /\ pc = "pypdf2_pages"
    /\ pages # << >>
    /\ \/ /\ text' = AppendPage(text, Head(pages))
          /\ pages' = Tail(pages)
          /\ UNCHANGED << pc, pdf2_error >>
       \/ \E e \in ExceptionMessages :
            /\ pdf2_error' = Some(e)
            /\ pc' = "compose"
            /\ UNCHANGED << text, pages >>
    /\ UNCHANGED << file_bytes, filename, fitz, PyPDF2, fitz_error, doc, calls, raised, parsed, result >>
    /\ UNCHANGED frames

\* lines 64-69
PyPDF2Done ==
    /\ pc = "pypdf2_pages"
    /\ pages = << >>
    /\ IF HasText(text)
       THEN pc' = "check_text" /\ UNCHANGED pdf2_error
       ELSE pc' = "compose" /\ pdf2_error' = Some("No text found in PDF (PyPDF2)")
    /\ UNCHANGED << file_bytes, filename, fitz, PyPDF2, text, fitz_error, doc, pages, calls, raised,
                    parsed, result >>
    /\ UNCHANGED frames

\* lines 74-83: raise RuntimeError(error_msg)
RaiseError ==
    /\ pc = "compose"
    /\ raised' = Some(error_msg(fitz, PyPDF2, fitz_error, pdf2_error))
    /\ pc' = "except"
    /\ UNCHANGED << file_bytes, filename, fitz, PyPDF2, text, fitz_error, pdf2_error, doc, pages,
                    calls, parsed, result >>
    /\ UNCHANGED frames

\* a variant of extract_from_bytes without the try of lines 728-736: the RuntimeError
\* leaves the call
CatchExtractionError_missing ==
    /\ pc = "except"
    /\ pc' = "propagated"
    /\ UNCHANGED << file_bytes, filename, fitz, PyPDF2, text, fitz_error, pdf2_error, doc, pages,
                    calls, raised, parsed, result >>
    /\ UNCHANGED frames

\* extract_from_bytes, lines 730-736
CatchExtractionError ==
    /\ pc = "except"
    /\ Return(Failure("pdf_extraction_failed", "Could not extract text from PDF: " \o Val(raised), ""))
    /\ UNCHANGED << file_bytes, filename, fitz, PyPDF2, text, fitz_error, pdf2_error, doc, pages,
                    calls, raised, parsed >>
    /\ UNCHANGED frames

\* extract_from_bytes, lines 738-805: the text check, the parse and the classification
ParseText ==
    /\ pc = "check_text"
    /\ IF text = "" \/ Strip(text) = ""
       THEN /\ Return(Failure("no_text_extracted", "No readable text found in PDF.", ""))
            /\ UNCHANGED parsed
       ELSE /\ parsed' = Some(ParseOf(text))
            /\ Return(ResultOf(ParseOf(text), text))
    /\ UNCHANGED << file_bytes, filename, fitz, PyPDF2, text, fitz_error, pdf2_error, doc, pages,
                    calls, raised >>
    /\ UNCHANGED frames

\* extract_from_bytes, lines 746-747 and 807-817: the parse raises
ParseRaises ==
    /\ pc = "check_text"
    /\ ~(text = "" \/ Strip(text) = "")
    /\ Return(Failure("parsing_failed", "Could not extract structured data from PDF.", text))
    /\ UNCHANGED << file_bytes, filename, fitz, PyPDF2, text, fitz_error, pdf2_error, doc, pages,
                    calls, raised, parsed >>
    /\ UNCHANGED frames

Next ==
    \/ CheckEmpty
    \/ Classify
    \/ FitzUnavailable
    \/ FitzOpen
    \/ FitzGetText
    \/ FitzClose
    \/ PyPDF2Skipped
    \/ PyPDF2Open
    \/ PyPDF2ExtractText
    \/ PyPDF2Done
    \/ RaiseError
    \/ CatchExtractionError
    \/ ParseText
    \/ ParseRaises

Spec == Init /\ [][Next]_vars

-----------------------------------------------------------------------------
(* A process that calls extract_from_bytes several times.  Each call has its *)
(* arguments and an environment: what fitz.open / PdfReader find in the      *)
(* buffer, where they raise, and whether the parser raises.                  *)

SessionBuffers == { << >>, << 0 >> }
SessionFilenames == { "a.pdf", "a.png", "a.txt" }
SessionDocuments == { << " " >>, << "Hello" >> }

\* a backend finds the pages, and raises on opening (raises_at = 0), on reading page
\* raises_at, or never (raises_at = Len(pages) + 1)
Behaviours ==
    { [pages |-> d, raises_at |-> k, message |-> "cannot open broken document"] :
        d \in SessionDocuments, k \in 0..2 }
Environments ==
    { [fitz |-> f, pypdf2 |-> p, parser_raises |-> r] :
        f \in Behaviours, p \in Behaviours, r \in BOOLEAN }
SessionCalls ==
    { [file_bytes |-> b, filename |-> n, env |-> e] :
        b \in SessionBuffers, n \in SessionFilenames, e \in Environments }

\* the calls a process may make between two calls with the same arguments
OtherCalls ==
    { [file_bytes |-> << 0, 0 >>, filename |-> "b.pdf",
       env |-> [fitz |-> [pages |-> << "Hello" >>, raises_at |-> 2, message |-> ""],
                pypdf2 |-> [pages |-> << "Hello" >>, raises_at |-> 2, message |-> ""],
                parser_raises |-> FALSE]],
      [file_bytes |-> << 0, 0 >>, filename |-> "b.pdf",
       env |-> [fitz |-> [pages |-> << "Hello" >>, raises_at |-> 1, message |-> ""],
                pypdf2 |-> [pages |-> << "Hello" >>, raises_at |-> 0, message |-> ""],
                parser_raises |-> FALSE]] }

\* a variant of the function entry in which text outlives the call, as a module-level
\* buffer would
Call_keeping_text(c) ==
    /\ file_bytes' = c.file_bytes
    /\ filename' = c.filename
    /\ pc' = "start"
    /\ fitz_error' = None
    /\ pdf2_error' = None
    /\ doc' = "none"
    /\ pages' = << >>
    /\ calls' = << >>
    /\ raised' = None
    /\ parsed' = None
    /\ result' = None
    /\ UNCHANGED text

\* extract_from_bytes is entered with the arguments of c: every local is fresh
\* (lines 702 and 29-31)
Call(c) ==
    /\ file_bytes' = c.file_bytes
    /\ filename' = c.filename
    /\ pc' = "start"
    /\ text' = ""
    /\ fitz_error' = None
    /\ pdf2_error' = None
    /\ doc' = "none"
    /\ pages' = << >>
    /\ calls' = << >>
    /\ raised' = None
    /\ parsed' = None
    /\ result' = None

\* the process starts: fitz and PyPDF2 are bound at import (lines 13-21), and the
\* first call is entered
InitCalls ==
    /\ fitz \in BOOLEAN
    /\ PyPDF2 \in BOOLEAN
    /\ \E c \in SessionCalls :
        /\ session = [pc |-> "calling", current |-> c, first |-> c, history |-> << >>]
        /\ file_bytes = c.file_bytes
        /\ filename = c.filename
    /\ pc = "start"
    /\ text = ""
    /\ fitz_error = None
    /\ pdf2_error = None
    /\ doc = "none"
    /\ pages = << >>
    /\ calls = << >>
    /\ raised = None
    /\ parsed = None
    /\ result = None
    /\ parser = Idle
    /\ scanner = Idle
    /\ tiers = Idle
    /\ validator = Idle
    /\ builder = Idle
    /\ money = Idle
    /\ codeno = Idle

\* the number of the page the running backend is about to read
Reading(b) == Len(b.pages) - Len(pages) + 1

\* line 35 under the environment of the call
SessionFitzOpen ==
    /\ FitzOpen
    /\ IF session.current.env.fitz.raises_at = 0
       THEN pc' = "pypdf2" /\ fitz_error' = Some(session.current.env.fitz.message)
       ELSE pc' = "fitz_pages" /\ pages' = session.current.env.fitz.pages

\* lines 36-39 under the environment of the call
SessionFitzGetText ==
    /\ FitzGetText
    /\ IF Reading(session.current.env.fitz) = session.current.env.fitz.raises_at
       THEN pc' = "pypdf2" /\ fitz_error' = Some(session.current.env.fitz.message)
       ELSE pc' = "fitz_pages"

\* lines 55-57 under the environment of the call
SessionPyPDF2Open ==
    /\ PyPDF2Open
    /\ IF session.current.env.pypdf2.raises_at = 0
       THEN pc' = "compose" /\ pdf2_error' = Some(session.current.env.pypdf2.message)
       ELSE pc' = "pypdf2_pages" /\ pages' = session.current.env.pypdf2.pages

\* lines 59-62 under the environment of the call
SessionPyPDF2ExtractText ==
    /\ PyPDF2ExtractText
    /\ IF Reading(session.current.env.pypdf2) = session.current.env.pypdf2.raises_at
       THEN pc' = "compose" /\ pdf2_error' = Some(session.current.env.pypdf2.message)
       ELSE pc' = "pypdf2_pages"

\* lines 745-817 under the environment of the call
SessionParse == IF session.current.env.parser_raises THEN ParseRaises ELSE ParseText

\* what a returned call leaves in the history of the process
Outcome == [call |-> session.current, result |-> Val(result)]

\* the call has returned and the process calls again, with the arguments and the
\* environment of its first call or with others
CallAgain ==
    /\ pc = "done"
    /\ session.pc = "calling"
    /\ Len(session.history) + 1 < MaxCalls
    /\ \E c \in { session.first } \cup OtherCalls :
        /\ session' = [session EXCEPT !.current = c, !.history = Append(@, Outcome)]
        /\ Call(c)
    /\ UNCHANGED << fitz, PyPDF2, parser, scanner, tiers, validator, builder, money, codeno >>

NextCalls ==
    \/ CheckEmpty
    \/ Classify
    \/ FitzUnavailable
    \/ SessionFitzOpen
    \/ SessionFitzGetText
    \/ FitzClose
    \/ PyPDF2Skipped
    \/ SessionPyPDF2Open
    \/ SessionPyPDF2ExtractText
    \/ PyPDF2Done
    \/ RaiseError
    \/ CatchExtractionError
    \/ SessionParse
    \/ CallAgain

SpecCalls == InitCalls /\ [][NextCalls]_vars

-----------------------------------------------------------------------------
(* Properties of extract_from_bytes and extract_text_from_pdf *)

Returned == pc = "done" /\ result # None
Fails(kind) == Returned /\ ~Val(result).success /\ Val(result).error = Some(kind)
Succeeds == Returned /\ Val(result).success /\ Val(result).error = None

ImageExtensions == { "jpg", "jpeg", "png", "gif", "tiff", "bmp" }
HasImageExtension(name) == \E ext \in ImageExtensions : EndsWith(Lower(name), "." \o ext)
StartsWithMagic(bytes) == Len(bytes) >= 4 /\ SubSeq(bytes, 1, 4) = PDF_MAGIC

\* C1: an empty byte buffer returns the failure empty_file for every filename, and the
\* check is made before any classification or text extraction: the call goes from its
\* start to its return without visiting any other step or invoking a backend.
C1_EmptyFile ==
    file_bytes = << >> =>
        /\ pc \in { "start", "done" }
        /\ calls = << >> /\ doc = "none"
        /\ pc = "done" => Fails("empty_file")

C1_Witness ==
    /\ Fails("empty_file")
    /\ file_bytes = << >>
    /\ filename = "a.png"

\* C2: a non-empty buffer whose filename ends in an image extension returns the failure
\* image_file_not_supported whatever its content, and neither backend is invoked
\* during the call.
C2_ImageFile ==
    (file_bytes # << >> /\ HasImageExtension(filename)) =>
        /\ pc \in { "start", "classify", "done" }
        /\ calls = << >> /\ doc = "none"
        /\ pc = "done" => Fails("image_file_not_supported")

C2_Witness ==
    /\ Fails("image_file_not_supported")
    /\ filename = "a.JPG"
    /\ Len(file_bytes) > 4 /\ StartsWithMagic(file_bytes)

\* the first test of extract_from_bytes that fails, taken top-down; "parsing_failed"
\* stands for the last test, the only one a success passes
FirstFailure ==
    IF file_bytes = << >> THEN "empty_file"
    ELSE IF HasImageExtension(filename) THEN "image_file_not_supported"
    ELSE IF ~is_pdf(file_bytes, filename) THEN "unsupported_file_type"
    ELSE IF raised # None THEN "pdf_extraction_failed"
    ELSE IF Strip(text) = "" THEN "no_text_extracted"
    ELSE "parsing_failed"

Locations ==
    { "start", "classify", "fitz", "fitz_pages", "pypdf2", "pypdf2_pages", "compose", "except",
      "check_text", "done" }

\* C3: whatever the buffer, the filename, the backends and the parser do, the call
\* stays inside extract_from_bytes until it returns (no exception leaves it, and every
\* step before the return has a next step), and what it returns is a success or the
\* failure of the first test that fails in the order empty_file,
\* image_file_not_supported, unsupported_file_type, pdf_extraction_failed,
\* no_text_extracted, parsing_failed.
C3_TypedResult ==
    /\ pc \in Locations
    /\ pc # "done" => ENABLED Next
    /\ pc = "done" =>
        /\ result # None
        /\ \/ Fails(FirstFailure)
           \/ Succeeds /\ FirstFailure = "parsing_failed"

C3_Witness ==
    /\ Fails("parsing_failed")
    /\ parsed = None
    /\ calls = << "fitz", "PyPDF2" >>
    /\ fitz_error = Some("cannot open broken document")

\* C4 as the specification states it: a non-empty buffer without an image extension
\* reaches the text extractor exactly when the filename ends in .pdf or the first four
\* bytes are %PDF, and is refused as unsupported_file_type in every other case.
C4_Classification ==
    (pc = "done" /\ file_bytes # << >> /\ ~HasImageExtension(filename)) =>
        (Fails("unsupported_file_type")
            <=> ~(EndsWith(Lower(filename), ".pdf") \/ StartsWithMagic(file_bytes)))

\* C5: PyMuPDF is tried before PyPDF2 and each at most once; PyPDF2 is tried only if
\* PyMuPDF was unavailable, raised or found only blank text; when PyMuPDF finds
\* non-blank text the call returns that text without invoking PyPDF2.
C5_BackendOrder ==
    /\ calls \in { << >>, << "fitz" >>, << "PyPDF2" >>, << "fitz", "PyPDF2" >> }
    /\ (\E k \in 1..Len(calls) : calls[k] = "fitz") => fitz
    /\ (\E k \in 1..Len(calls) : calls[k] = "PyPDF2") => PyPDF2 /\ (~fitz \/ fitz_error # None)
    /\ (doc = "closed" /\ fitz_error = None) =>
        /\ calls = << "fitz" >>
        /\ pc \in { "check_text", "done" }
        /\ HasText(text)
        /\ pc = "done" => Val(result).raw_text = text

C5_Witness ==
    /\ Succeeds
    /\ calls = << "fitz", "PyPDF2" >>
    /\ fitz_error = Some("No text found in PDF (PyMuPDF)")

\* C6 as the specification states it: once extract_text_from_pdf has handed control
\* back to its caller, by returning the text or by raising, the document PyMuPDF
\* opened is not open any more.
C6_DocumentClosed == pc \in { "check_text", "except", "done" } => doc # "open"

\* every backend that is present opened the file without error and found no text
NoReadableText ==
    /\ fitz \/ PyPDF2
    /\ fitz => fitz_error = Some("No text found in PDF (PyMuPDF)")
    /\ PyPDF2 => pdf2_error = Some("No text found in PDF (PyPDF2)")

\* C7 as the specification states it: a pdf in which every available backend finds
\* only empty or blank text returns the failure no_text_extracted.
C7_NoTextExtracted == (pc = "done" /\ NoReadableText) => Fails("no_text_extracted")

\* C8: when text extraction fails the call returns pdf_extraction_failed with the
\* message extract_text_from_pdf raised; with neither library present the message
\* says that no library is available; with both backends tried and failed the message
\* contains the reason of each.
C8_ExtractionFailure ==
    /\ pc = "except" => raised # None
    /\ (pc = "done" /\ raised # None) =>
        /\ Fails("pdf_extraction_failed")
        /\ Val(result).message = "Could not extract text from PDF: " \o Val(raised)
        /\ (~fitz /\ ~PyPDF2) =>
              Val(raised) = "No PDF extraction library available. Install PyMuPDF or PyPDF2."
        /\ calls = << "fitz", "PyPDF2" >> =>
              /\ fitz_error # None /\ pdf2_error # None
              /\ Contains(Val(result).message, Val(fitz_error))
              /\ Contains(Val(result).message, Val(pdf2_error))

C8_Witness ==
    /\ Fails("pdf_extraction_failed")
    /\ fitz_error = Some("cannot open broken document")
    /\ pdf2_error = Some("No text found in PDF (PyPDF2)")

\* C9 as the specification states it: when readable text was extracted and parsed, the
\* call succeeds exactly when the parse found a customer name, an invoice number, a
\* total or at least one line item, and fails with parsing_failed otherwise.
C9_SuccessCriterion ==
    (pc = "done" /\ parsed # None) =>
        IF \/ Val(parsed).customer_name # None
           \/ Val(parsed).invoice_no # None
           \/ Val(parsed).total # None
           \/ Len(Val(parsed).items) > 0
        THEN Succeeds
        ELSE Fails("parsing_failed")

\* C10: every failure has an empty header and no items, and an empty raw_text unless
\* it is parsing_failed, whose raw_text is the extracted text; every success carries
\* the extracted text as raw_text; ocr_available is false in every result.
C10_ResultShape ==
    pc = "done" =>
        /\ Val(result).ocr_available = FALSE
        /\ Succeeds => Val(result).raw_text = text /\ HasText(text)
        /\ ~Val(result).success =>
              /\ Val(result).header = EmptyDict
              /\ Val(result).items = << >>
              /\ Val(result).raw_text = IF Fails("parsing_failed") THEN text ELSE ""

C10_Witness ==
    /\ Fails("parsing_failed")
    /\ Val(result).raw_text = "Hello\n"
    /\ parsed # None

\* the calls that have returned so far, the running one included once it has returned
Outcomes == session.history \o (IF pc = "done" THEN << Outcome >> ELSE << >>)

\* C11: within one process, any two calls with the same bytes and filename and the
\* same behaviour of the backends and the parser return the same result, whatever
\* calls were made before or between them.
C11_Deterministic ==
    \A i, j \in 1..Len(Outcomes) :
        Outcomes[i].call = Outcomes[j].call => Outcomes[i].result = Outcomes[j].result

C11_Witness ==
    /\ pc = "done"
    /\ Len(session.history) = 2
    /\ session.history[1].call = session.current
    /\ session.history[2].call # session.current
    /\ session.history[2].result.error = Some("pdf_extraction_failed")
    /\ Fails("parsing_failed")
    /\ calls = << "fitz", "PyPDF2" >>


-----------------------------------------------------------------------------
(* A call of parse_item_complete, one step per tier *)

\* no call of extract_from_bytes is under way
CallIdle ==
    /\ file_bytes = << >>
    /\ filename = ""
    /\ fitz = FALSE
    /\ PyPDF2 = FALSE
    /\ pc = "idle"
    /\ text = ""
    /\ fitz_error = None
    /\ pdf2_error = None
    /\ doc = "none"
    /\ pages = << >>
    /\ calls = << >>
    /\ raised = None
    /\ parsed = None
    /\ result = None

\* the columns a row is made of; a row may lack any of them
ItemCodes == { None, Some("21004") }
ItemDescriptions == { "", "FOR", "WHEEL BALANCE", "KIT 21004 X" }
ItemUnits == { "", "PCS", "pcs" }
ItemAmounts ==
    { "", "3", "4 12.00", "4 12.00 48.00", "4 12.00 50.00", "4 12.00 2 48.00", "4 18% 12.00 48.00",
      "4 12.00 2 18.50%" }

NonEmpty(s) == s # ""
Columns(description, unit, amounts) == JoinWithSpace(SelectSeq(<< description, unit, amounts >>, NonEmpty))

\* the first row of the sample of test_extraction, as the line scan hands it over (line 904)
SampleRow ==
    << [line |-> "BF GOODRICH TYRE LT265/65R17 116/113S TL ALL-TERRAIN T/A KO3 LRD RWL GO PCS   4    1,037,400.00 4,149,600.00",
        code |-> Some("2132004135")] >>

\* the arguments of the calls: no line, one line, a line and its continuation
Fragments ==
    { << >>, SampleRow }
    \cup { << [line |-> Columns(d, u, a), code |-> c] >> :
             d \in ItemDescriptions, u \in ItemUnits, a \in ItemAmounts, c \in ItemCodes }
    \cup { << [line |-> d, code |-> c], [line |-> Columns("", u, a), code |-> None] >> :
             d \in { "WHEEL BALANCE" }, u \in { "PCS" }, a \in ItemAmounts, c \in ItemCodes }

InitItem ==
    /\ CallIdle
    /\ session = Idle
    /\ parser = Idle
    /\ scanner = Idle
    /\ validator = Idle
    /\ builder = Idle
    /\ money = Idle
    /\ codeno = Idle
    /\ \E item_lines \in Fragments :
        tiers = [pc |-> "enter", item_lines |-> item_lines, item_number |-> 1, evaluated |-> << >>]

not_tiers == << call_vars, session, parser, scanner, validator, builder, money, codeno >>

\* return of parse_item_complete from tier n (lines 506-514, 534-542, 579-587, 668-676)
ItemReturn(n, item) ==
    tiers' = [pc |-> "returned", item |-> item, tier |-> n,
              evaluated |-> IF n = 0 THEN tiers.evaluated ELSE Append(tiers.evaluated, n)] @@ tiers

\* the pattern of tier n did not match: on to the next tier
ItemNextTier(n, next) ==
    tiers' = [pc |-> next, evaluated |-> Append(tiers.evaluated, n)] @@ tiers

\* lines 473-488
ItemEntered(full_text) ==
    tiers' = [pc |-> "tier1",
              item_code |-> ItemCode(tiers.item_lines[1].code, full_text),
              full_text |-> full_text,
              cleaned_text |-> Strip(Sub(<< Spaces0 >> \o percentage \o << Spaces0 >>, " ", full_text, FALSE))]
             @@ tiers

\* lines 470-488
ItemEnter ==
    /\ tiers.pc = "enter"
    /\ IF tiers.item_lines = << >>
       THEN ItemReturn(0, None)
       ELSE ItemEntered(JoinWithSpace([ k \in 1..Len(tiers.item_lines) |-> tiers.item_lines[k].line ]))
    /\ UNCHANGED not_tiers

\* a variant of tier 1 that builds the item and still goes on to tier 2
Tier1_falling_throughWith(match_complete) ==
    IF match_complete.ok
    THEN tiers' = [pc |-> "tier2", evaluated |-> Append(tiers.evaluated, 1),
                   item |-> Some(ItemComplete(tiers.item_code, tiers.cleaned_text, match_complete))] @@ tiers
    ELSE ItemNextTier(1, "tier2")
Tier1_falling_through ==
    /\ tiers.pc = "tier1"
    /\ Tier1_falling_throughWith(Search(pattern_complete, tiers.cleaned_text, FALSE))
    /\ UNCHANGED not_tiers

\* lines 490-514
Tier1With(match_complete) ==
    IF match_complete.ok
    THEN ItemReturn(1, Some(ItemComplete(tiers.item_code, tiers.cleaned_text, match_complete)))
    ELSE ItemNextTier(1, "tier2")
Tier1 ==
    /\ tiers.pc = "tier1"
    /\ Tier1With(Search(pattern_complete, tiers.cleaned_text, FALSE))
    /\ UNCHANGED not_tiers

\* lines 516-542
Tier2With(match_with_unit) ==
    IF match_with_unit.ok
    THEN ItemReturn(2, Some(ItemWithUnit(tiers.item_code, tiers.cleaned_text, match_with_unit)))
    ELSE ItemNextTier(2, "tier3")
Tier2 ==
    /\ tiers.pc = "tier2"
    /\ Tier2With(Search(pattern_with_unit, tiers.cleaned_text, FALSE))
    /\ UNCHANGED not_tiers

\* lines 544-587
Tier3With(matches_basic) ==
    IF Len(matches_basic) >= 2
    THEN ItemReturn(3, Some(ItemBasic(tiers.item_code, tiers.full_text, matches_basic, UnitIn(tiers.full_text))))
    ELSE ItemNextTier(3, "tier4")
Tier3 ==
    /\ tiers.pc = "tier3"
    /\ Tier3With(FindAll(pattern_basic, tiers.full_text, FALSE))
    /\ UNCHANGED not_tiers

\* lines 589-676
Tier4 ==
    /\ tiers.pc = "tier4"
    /\ ItemReturn(4, Fallback(tiers.item_code, tiers.full_text, tiers.cleaned_text))
    /\ UNCHANGED not_tiers

NextItem == ItemEnter \/ Tier1 \/ Tier2 \/ Tier3 \/ Tier4

SpecItem == InitItem /\ [][NextItem]_vars

\* the pattern of tier n matches the fragment of the call; tier 4 has no pattern
TierMatches(n) ==
    CASE n = 1 -> Search(pattern_complete, tiers.cleaned_text, FALSE).ok
      [] n = 2 -> Search(pattern_with_unit, tiers.cleaned_text, FALSE).ok
      [] n = 3 -> Len(FindAll(pattern_basic, tiers.full_text, FALSE)) >= 2
      [] n = 4 -> TRUE

\* the tier the call has reached: the one about to be evaluated, or the one that returned
TierReached ==
    CASE tiers.pc = "tier1" -> 1
      [] tiers.pc = "tier2" -> 2
      [] tiers.pc = "tier3" -> 3
      [] tiers.pc = "tier4" -> 4
      [] tiers.pc = "returned" -> tiers.tier
      [] OTHER -> 0

\* C12: a tier is evaluated only when every tier before it failed to match, the
\* tiers are evaluated in order and none after the one that matched, and the item
\* returned is the one parse_item_complete builds from that tier
C12_SingleTier ==
    tiers.pc \in { "tier1", "tier2", "tier3", "tier4", "returned" } =>
        /\ tiers.evaluated = [ k \in 1..Len(tiers.evaluated) |-> k ]
        /\ \A n \in 1..(TierReached - 1) : ~TierMatches(n)
        /\ tiers.pc # "returned" =>
               /\ Len(tiers.evaluated) = TierReached - 1
               /\ "item" \notin DOMAIN tiers
        /\ tiers.pc = "returned" =>
               /\ Len(tiers.evaluated) = tiers.tier
               /\ tiers.item # None => tiers.tier \in 1..4 /\ TierMatches(tiers.tier)
               /\ tiers.item = parse_item_complete(tiers.item_lines, tiers.item_number)

\* tier 1 returned the item of a fragment that tier 2 would have matched as well
C12_Witness ==
    /\ tiers.pc = "returned"
    /\ tiers.tier = 1
    /\ tiers.evaluated = << 1 >>
    /\ tiers.item # None
    /\ TierMatches(2)
    /\ Len(tiers.item_lines) = 2


\* the last space-separated word of a text
LastWord(s) == SubSeq(s, Max({ 1 } \cup { i \in 2..Len(s) : Ch(s, i - 1) \in SpaceSet }), Len(s))

\* C16: the value of an item that tier 1 returns is the last amount of the fragment
\* as it is written there, and the first row of the sample gives code 2132004135,
\* unit PCS, quantity 4, rate 1037400.00 and value 4149600.00
C16_ValueVerbatim ==
    (tiers.pc = "returned" /\ tiers.tier = 1) =>
        /\ tiers.item # None
        /\ Val(tiers.item).value = Some(DecimalOf(RemoveCommas(LastWord(tiers.cleaned_text))))
        /\ tiers.item_lines = SampleRow =>
               /\ Val(tiers.item).code = Some("2132004135")
               /\ Val(tiers.item).unit = Some("PCS")
               /\ Val(tiers.item).qty = 4
               /\ Val(tiers.item).rate = Some([n |-> 103740000, e |-> 2, d |-> 1])
               /\ Val(tiers.item).value = Some([n |-> 414960000, e |-> 2, d |-> 1])

\* tier 1 returned an item whose written value, 50.00, is not 4 times its rate 12.00
C16_Witness ==
    /\ tiers.pc = "returned"
    /\ tiers.tier = 1
    /\ Val(tiers.item).qty = 4
    /\ Val(tiers.item).rate = Some([n |-> 1200, e |-> 2, d |-> 1])
    /\ Val(tiers.item).value = Some([n |-> 5000, e |-> 2, d |-> 1])


-----------------------------------------------------------------------------
(* A call of extract_line_items_corrected, one step per line *)

TableHeader == "Sr Code Description Qty Rate"

\* the lines a table is made of: an empty line, a continuation, rows with and
\* without a code, rows whose parse gives no description, an end-of-table marker
\* and a row that contains one
ScanLines ==
    { "", "ALLOY",
      "1 21004 WHEEL BALANCE PCS 4 12.00 48.00",
      "2 21005 FOR PCS 4 12.00 48.00",
      "3 OIL PCS 2 5.00 10.00",
      "4 21006 NOTES PCS 1 5.00 5.00",
      "5 21007 3",
      "Net Value: 48.00" }

ScanTails == UNION { [1..n -> ScanLines] : n \in 0..MaxLines }

\* longer tables: rows 3 and 4 of the sample of test_extraction with its total, an
\* item with a continuation line and rows after the marker, rows whose
\* description the cleanup empties in each of the four tiers, a row wrapped
\* over three lines after a line that belongs to no item, rows without a code
\* whose text holds a number of four digits or more, and rows whose description
\* is a single character, before or after the cleanup
LongerTables ==
    { << "Sr  Item Code  Description   Type  Qty  Rate (TSH)   Value (TSH)",
         "3   21004      WHEEL BALANCE ALLOY RIMS       PCS   4    12,712.00    50,848.00",
         "4   21019      WHEEL ALIGNMENT SMALL          UNT   1    50,848.00    50,848.00",
         "Net Value: 4,256,496.00" >>,
      << TableHeader, "1 21004 WHEEL BALANCE PCS 4 12.00 48.00", "ALLOY", "Net Value: 48.00",
         "3 OIL PCS 2 5.00 10.00", "ALLOY" >>,
      << TableHeader, "2 21005 FOR PCS 4 12.00 48.00", "6 21008 FOR PCS 4 12.00",
         "7 21009 CAR 4 12.00 2 48.00", "8 21010 FOR 3", "1 21004 WHEEL BALANCE PCS 4 12.00 48.00" >>,
      << TableHeader, "ALLOY", "1 21004 WHEEL BALANCE", "ALLOY RIMS", "PCS 4 12.00 48.00",
         "Net Value: 48.00" >>,
      << TableHeader, "3 OIL PCS 2 5000.00 10000.00", "4 OIL FILTER 12345 PCS 2 5.00 10.00" >>,
      << TableHeader, "1 21004 X PCS 4 12.00 48.00", "2 21005 A FOR", "5 21008 D" >> }

ScanInputs ==
    LongerTables
    \cup { prefix \o tail : prefix \in { << >>, << TableHeader >> }, tail \in ScanTails }

\* lines 373 and 400-402; parsed_items is the log of the results of parse_item_complete
\* and starts the number of items started
InitScan ==
    /\ CallIdle
    /\ session = Idle
    /\ parser = Idle
    /\ tiers = Idle
    /\ validator = Idle
    /\ builder = Idle
    /\ money = Idle
    /\ codeno = Idle
    /\ \E lines \in ScanInputs :
        scanner = [pc |-> "header", lines |-> lines, table_start |-> 0, i |-> 0,
                   current_item_lines |-> << >>,
                   current_item_number |-> None, items |-> << >>, parsed_items |-> << >>,
                   starts |-> 0]

not_scanner == << call_vars, session, parser, tiers, validator, builder, money, codeno >>

\* lines 376-402
ScanHeaderWith(header) ==
    IF header = 0 THEN scanner' = [scanner EXCEPT !.pc = "returned"]
    ELSE scanner' = [scanner EXCEPT !.pc = "loop", !.table_start = header, !.i = header + 1]
ScanHeader ==
    /\ scanner.pc = "header"
    /\ ScanHeaderWith(table_start(scanner.lines))
    /\ UNCHANGED not_scanner

\* lines 404-405: the loop is at a line
AtLine == scanner.pc = "loop" /\ scanner.i <= Len(scanner.lines)
ThisLine == Strip(scanner.lines[scanner.i])
IsSectionBreak(line) == Search(section_break, line, TRUE).ok
IsItemStart(line) == MatchStart(item_start, line, FALSE).ok
IsSimpleStart(line) ==
    MatchStart(item_simple, line, FALSE).ok /\ ~MatchStart(item_start_prefix, line, FALSE).ok

\* lines 421-425, 438-442, 456-460
FlushedWith(scan, parsed_item) ==
    [scan EXCEPT !.items = Emit(@, parsed_item), !.parsed_items = Append(@, parsed_item)]
Flush(scan) ==
    IF scan.current_item_lines # << >> /\ scan.current_item_number # None
    THEN FlushedWith(scan, parse_item_complete(scan.current_item_lines, Val(scan.current_item_number)))
    ELSE scan

\* line 404: no line is left
ScanEnd ==
    /\ scanner.pc = "loop"
    /\ scanner.i > Len(scanner.lines)
    /\ scanner' = [scanner EXCEPT !.pc = "last"]
    /\ UNCHANGED not_scanner

\* a variant of lines 408-410 that skips the marker line and goes on
ScanStop_going_on ==
    /\ AtLine
    /\ IsSectionBreak(ThisLine)
    /\ scanner' = [scanner EXCEPT !.i = @ + 1]
    /\ UNCHANGED not_scanner

\* lines 408-410
ScanStop ==
    /\ AtLine
    /\ IsSectionBreak(ThisLine)
    /\ scanner' = [scanner EXCEPT !.pc = "last"]
    /\ UNCHANGED not_scanner

\* lines 413-415
ScanSkip ==
    /\ AtLine
    /\ ~IsSectionBreak(ThisLine)
    /\ ThisLine = ""
    /\ scanner' = [scanner EXCEPT !.i = @ + 1]
    /\ UNCHANGED not_scanner

\* a variant of lines 418-431 that starts the new item without completing the one before
ScanItemStart_without_flushWith(line, item_start_match) ==
    scanner' = [scanner EXCEPT
                   !.current_item_number = Some(Group(line, item_start_match, 1)),
                   !.current_item_lines = << [code |-> Some(Group(line, item_start_match, 2)),
                                              line |-> Group(line, item_start_match, 3)] >>,
                   !.starts = @ + 1,
                   !.i = @ + 1]
ScanItemStart_without_flush ==
    /\ AtLine
    /\ ~IsSectionBreak(ThisLine)
    /\ ThisLine # ""
    /\ IsItemStart(ThisLine)
    /\ ScanItemStart_without_flushWith(ThisLine, MatchStart(item_start, ThisLine, FALSE))
    /\ UNCHANGED not_scanner

\* lines 418-431
ScanItemStartWith(line, item_start_match) ==
    scanner' = [Flush(scanner) EXCEPT
                   !.current_item_number = Some(Group(line, item_start_match, 1)),
                   !.current_item_lines = << [code |-> Some(Group(line, item_start_match, 2)),
                                              line |-> Group(line, item_start_match, 3)] >>,
                   !.starts = @ + 1,
                   !.i = @ + 1]
ScanItemStart ==
    /\ AtLine
    /\ ~IsSectionBreak(ThisLine)
    /\ ThisLine # ""
    /\ IsItemStart(ThisLine)
    /\ ScanItemStartWith(ThisLine, MatchStart(item_start, ThisLine, FALSE))
    /\ UNCHANGED not_scanner

\* lines 433-447
ScanSimpleStartWith(line, item_simple_match) ==
    scanner' = [Flush(scanner) EXCEPT
                   !.current_item_number = Some(Group(line, item_simple_match, 1)),
                   !.current_item_lines = << [code |-> None, line |-> Group(line, item_simple_match, 2)] >>,
                   !.starts = @ + 1,
                   !.i = @ + 1]
ScanSimpleStart ==
    /\ AtLine
    /\ ~IsSectionBreak(ThisLine)
    /\ ThisLine # ""
    /\ ~IsItemStart(ThisLine)
    /\ IsSimpleStart(ThisLine)
    /\ ScanSimpleStartWith(ThisLine, MatchStart(item_simple, ThisLine, FALSE))
    /\ UNCHANGED not_scanner

\* a variant of lines 449-453 that puts the continuation line in front of the others
ScanContinue_in_front ==
    /\ AtLine
    /\ ~IsSectionBreak(ThisLine)
    /\ ThisLine # ""
    /\ ~IsItemStart(ThisLine)
    /\ ~IsSimpleStart(ThisLine)
    /\ IF scanner.current_item_lines # << >>
       THEN scanner' = [scanner EXCEPT
                           !.current_item_lines =
                               << [code |-> @[1].code, line |-> ThisLine] >>
                               \o << [code |-> None, line |-> @[1].line] >> \o Tail(@),
                           !.i = @ + 1]
       ELSE scanner' = [scanner EXCEPT !.i = @ + 1]
    /\ UNCHANGED not_scanner

\* lines 449-453: a continuation line, or a line before the first item
ScanContinue ==
    /\ AtLine
    /\ ~IsSectionBreak(ThisLine)
    /\ ThisLine # ""
    /\ ~IsItemStart(ThisLine)
    /\ ~IsSimpleStart(ThisLine)
    /\ IF scanner.current_item_lines # << >>
       THEN scanner' = [scanner EXCEPT
                           !.current_item_lines = Append(@, [code |-> None, line |-> ThisLine]),
                           !.i = @ + 1]
       ELSE scanner' = [scanner EXCEPT !.i = @ + 1]
    /\ UNCHANGED not_scanner

\* lines 455-463
ScanLast ==
    /\ scanner.pc = "last"
    /\ scanner' = [Flush(scanner) EXCEPT !.pc = "returned"]
    /\ UNCHANGED not_scanner

NextScan ==
    \/ ScanHeader
    \/ ScanEnd
    \/ ScanStop
    \/ ScanSkip
    \/ ScanItemStart
    \/ ScanSimpleStart
    \/ ScanContinue
    \/ ScanLast

SpecScan == InitScan /\ [][NextScan]_vars

\* the step model returns what the function returns
ScanAgrees ==
    scanner.pc = "returned" => scanner.items = extract_line_items_corrected(scanner.lines)


\* the space-separated words of a line and the positions where they start
WordStarts(s) == { i \in 1..Len(s) : Ch(s, i) \notin SpaceSet /\ (i = 1 \/ Ch(s, i - 1) \in SpaceSet) }
WordEnd(s, i) == Min({ j \in i..Len(s) : j = Len(s) \/ Ch(s, j + 1) \in SpaceSet })
NthStart(s, k) == CHOOSE i \in WordStarts(s) : Cardinality({ j \in WordStarts(s) : j < i }) = k - 1
NthWord(s, k) == SubSeq(s, NthStart(s, k), WordEnd(s, NthStart(s, k)))
FromWord(s, k) == SubSeq(s, NthStart(s, k), Len(s))
WordCount(s) == Cardinality(WordStarts(s))

AllDigits(w) == w # "" /\ \A i \in 1..Len(w) : Ch(w, i) \in DigitSet
\* a number, with or without a point after it
IsRowNumber(w) ==
    \/ AllDigits(w)
    \/ Len(w) >= 2 /\ Ch(w, Len(w)) = "." /\ AllDigits(SubSeq(w, 1, Len(w) - 1))
RowNumber(w) == IF AllDigits(w) THEN w ELSE SubSeq(w, 1, Len(w) - 1)
IsCodeToken(w) == AllDigits(w) /\ Len(w) >= 4 /\ Len(w) <= 15

\* the shape <number> <4-15-digit code> <rest>, and the shape <number> <rest>
HasItemShape(line) ==
    WordCount(line) >= 3 /\ IsRowNumber(NthWord(line, 1)) /\ IsCodeToken(NthWord(line, 2))
HasNumberedShape(line) == WordCount(line) >= 2 /\ IsRowNumber(NthWord(line, 1))

HasDescription(parsed_item) == parsed_item # None /\ Val(parsed_item).description # ""

\* C13: no item of the list that extract_line_items_corrected builds and returns has
\* an empty description
C13_NoEmptyDescription ==
    scanner.pc # "idle" => \A k \in 1..Len(scanner.items) : scanner.items[k].description # ""

\* the scan returned one item out of five parsed: the first four, one per tier, were
\* parsed into items whose description the cleanup emptied
C13_Witness ==
    /\ scanner.pc = "returned"
    /\ Len(scanner.parsed_items) = 5
    /\ \A k \in 1..4 : scanner.parsed_items[k] # None /\ Val(scanner.parsed_items[k]).description = ""
    /\ Len(scanner.items) = 1
    /\ scanner.items[1].description = "WHEEL BALANCE"


\* the step consumed a line of the table and the scan goes on
LineConsumed ==
    /\ AtLine
    /\ scanner'.pc = "loop"
    /\ scanner'.i = scanner.i + 1

\* an item is being built
Accumulating == scanner.current_item_lines # << >> /\ scanner.current_item_number # None

\* C19: a step of the scan that consumes a line of the shape <number> <code> <rest>
\* parses the item being built, if any, exactly once, appends it to the items if it
\* has a description and drops it otherwise, and starts a new item that has the
\* code token of the line as code and the rest of the line as first line
C19_ItemStart ==
    [][ (LineConsumed /\ HasItemShape(ThisLine)) =>
          /\ scanner'.starts = scanner.starts + 1
          /\ scanner'.current_item_number = Some(RowNumber(NthWord(ThisLine, 1)))
          /\ scanner'.current_item_lines =
                 << [code |-> Some(NthWord(ThisLine, 2)), line |-> FromWord(ThisLine, 3)] >>
          /\ Accumulating =>
                 /\ scanner'.parsed_items =
                        Append(scanner.parsed_items,
                               parse_item_complete(scanner.current_item_lines,
                                                   Val(scanner.current_item_number)))
                 /\ scanner'.items =
                        IF HasDescription(scanner'.parsed_items[Len(scanner'.parsed_items)])
                        THEN Append(scanner.items, Val(scanner'.parsed_items[Len(scanner'.parsed_items)]))
                        ELSE scanner.items
          /\ ~Accumulating =>
                 /\ scanner'.parsed_items = scanner.parsed_items
                 /\ scanner'.items = scanner.items ]_vars

\* a second row has started after a first row whose parse had no description: the
\* first row was parsed and dropped, and the item being built has the code of the second
C19_Witness ==
    /\ scanner.pc = "loop"
    /\ scanner.starts = 2
    /\ Len(scanner.parsed_items) = 1
    /\ scanner.parsed_items[1] # None
    /\ scanner.items = << >>
    /\ scanner.current_item_lines = << [code |-> Some("21004"), line |-> "WHEEL BALANCE PCS 4 12.00 48.00"] >>


\* the index of the first line after the header that holds an end-of-table marker,
\* one past the last line when there is none
TableEnd(lines, header) ==
    Min({ Len(lines) + 1 } \cup { j \in (header + 1)..Len(lines) : IsSectionBreak(Strip(lines[j])) })

\* the indexes of the rows of the table that ends before line end, the index of
\* the k-th of them in document order, and the index the lines of row j end before
RowIndexes(lines, header, end) ==
    { j \in (header + 1)..(end - 1) : HasNumberedShape(Strip(lines[j])) }
NthRow(rows, k) == CHOOSE j \in rows : Cardinality({ r \in rows : r < j }) = k - 1
RowEnd(rows, end, j) == Min({ end } \cup { r \in rows : r > j })

\* the fragment of the row at line j: what follows its number and code, then the
\* non-empty lines up to the next row or the end of the table
RowFirstLine(line) ==
    IF HasItemShape(line)
    THEN [code |-> Some(NthWord(line, 2)), line |-> FromWord(line, 3)]
    ELSE [code |-> None, line |-> FromWord(line, 2)]
NonEmptyLines(lines) == SelectSeq(StripAll(lines), NonEmpty)
Continuations(lines) == [ k \in 1..Len(lines) |-> [code |-> None, line |-> lines[k]] ]
RowFragment(lines, rows, end, j) ==
    << RowFirstLine(Strip(lines[j])) >>
    \o Continuations(NonEmptyLines(SubSeq(lines, j + 1, RowEnd(rows, end, j) - 1)))

\* the values of the parse results that have a description, in their order
Described(parsed_items) ==
    [ k \in 1..Len(parsed_items) |-> Val(parsed_items[k]) ]

\* what a scan that has returned leaves, for a table whose rows are at the indexes
\* rows and that ends before line end
FlushedOnce(scan, rows, end) ==
    /\ scan.i = end
    /\ scan.starts = Cardinality(rows)
    /\ Len(scan.parsed_items) = scan.starts
    /\ \A k \in 1..scan.starts :
           scan.parsed_items[k] =
               parse_item_complete(RowFragment(scan.lines, rows, end, NthRow(rows, k)), k)
    /\ scan.items = Described(SelectSeq(scan.parsed_items, HasDescription))
    /\ scan.items = extract_line_items_corrected(SubSeq(scan.lines, 1, end - 1))
FlushedOnceBefore(scan, end) ==
    FlushedOnce(scan, RowIndexes(scan.lines, scan.table_start, end), end)

\* C20: the scan never goes past the first line that holds an end-of-table marker;
\* once it has returned every row before that line, and no other, has been parsed
\* exactly once, in document order, the items are the parsed rows that have a
\* description, in that order, and they are the items of the table cut before the
\* marker
C20_StopAndFlushOnce ==
    scanner.pc \in { "loop", "last", "returned" } /\ scanner.table_start # 0 =>
        /\ scanner.i <= TableEnd(scanner.lines, scanner.table_start)
        /\ Len(scanner.parsed_items) \in { scanner.starts, scanner.starts - 1 }
        /\ scanner.pc = "returned" =>
               FlushedOnceBefore(scanner, TableEnd(scanner.lines, scanner.table_start))

\* the scan stopped at a marker on the fourth of six lines with an item of two lines
\* in progress: that item was parsed once and emitted, and the row after the marker
\* was not
C20_Witness ==
    /\ scanner.pc = "returned"
    /\ Len(scanner.lines) = 6
    /\ scanner.i = 4
    /\ IsSectionBreak(scanner.lines[4])
    /\ HasNumberedShape(scanner.lines[5])
    /\ Len(scanner.current_item_lines) = 2
    /\ scanner.starts = 1
    /\ Len(scanner.parsed_items) = 1
    /\ Len(scanner.items) = 1


-----------------------------------------------------------------------------
(* A call of is_valid_code_no, one step per test *)

\* the candidates of the calls: too short, dates, numbers around the limits of length
\* and value, numbers with a point, the labels in several cases, page and n-of-m
\* shapes, and codes with and without letters
Candidates ==
    { "", "a", "7", "ab", "12", "--", "---", "a.b", "A01696", "AB-12/3_X", "invoices", "totals",
      "31/12/2024", "1-2-34", "1/2/2024", "31-12/24", "12/34", "1/2/3", "123/12/2024", "1/2/20245",
      "000012", "100000", "100001", "500000", "999999", "0000012", "1234567", "12345678",
      "123456789", "12.5", "12.", "1234.5", "12345.6", "100000.5", "12.3.4",
      "total", "TOTAL", "Total", "subtotal", "vat", "Vat", "tax", "amount", "invoice", "INVOICE",
      "proforma", "customer", "name", "address", "phone", "email", "ref", "reference", "date",
      "terms", "page", "Page", "page3", "PAGE12", "3of10", "3OF10", "3of", "of10",
      "-12-", "12-34567", "1234-5678", "123456789-" }

InitCode ==
    /\ CallIdle
    /\ session = Idle
    /\ parser = Idle
    /\ scanner = Idle
    /\ tiers = Idle
    /\ builder = Idle
    /\ money = Idle
    /\ codeno = Idle
    /\ \E candidate \in Candidates : validator = [pc |-> "length", candidate |-> candidate]

not_validator == << call_vars, session, parser, scanner, tiers, builder, money, codeno >>

CodeReturn(value) == validator' = [pc |-> "returned", value |-> value] @@ validator
CodeRaise(exception) == validator' = [pc |-> "raised", exception |-> exception] @@ validator
CodeGoOn(next) == validator' = [validator EXCEPT !.pc = next]

\* lines 184-185
CodeLength ==
    /\ validator.pc = "length"
    /\ IF validator.candidate = "" \/ Len(validator.candidate) < 2
       THEN CodeReturn(FALSE) ELSE CodeGoOn("date")
    /\ UNCHANGED not_validator

\* lines 188-189
CodeDate ==
    /\ validator.pc = "date"
    /\ IF MatchStart(date_shape, validator.candidate, FALSE).ok
       THEN CodeReturn(FALSE) ELSE CodeGoOn("number")
    /\ UNCHANGED not_validator

\* int(candidate) of line 195 raises ValueError for digits with a point
IntRaises(candidate) == \E i \in 1..Len(candidate) : Ch(candidate, i) = "."

\* lines 192-196
CodeNumber ==
    /\ validator.pc = "number"
    /\ IF ~MatchStart(pure_number, validator.candidate, FALSE).ok THEN CodeGoOn("labels")
       ELSE IF Len(validator.candidate) > 6 THEN CodeReturn(FALSE)
       ELSE IF IntRaises(validator.candidate) THEN CodeRaise("ValueError")
       ELSE IF IntOf(validator.candidate) > 100000 THEN CodeReturn(FALSE)
       ELSE CodeGoOn("labels")
    /\ UNCHANGED not_validator

\* lines 199-208
CodeLabels ==
    /\ validator.pc = "labels"
    /\ IF \E k \in 1..Len(invalid_patterns) :
              MatchStart(invalid_patterns[k], validator.candidate, TRUE).ok
       THEN CodeReturn(FALSE) ELSE CodeGoOn("shape")
    /\ UNCHANGED not_validator

\* lines 211-222
CodeShape ==
    /\ validator.pc = "shape"
    /\ IF \E i \in 1..Len(validator.candidate) : Ch(validator.candidate, i) \in UpperSet \cup LowerSet
       THEN CodeReturn(TRUE)
       ELSE IF /\ \E i \in 1..Len(validator.candidate) : Ch(validator.candidate, i) \in DigitSet
               /\ Len(validator.candidate) <= 8
       THEN CodeReturn(TRUE)
       ELSE CodeReturn(MatchStart(<< Bol, Cls(UpperCodeNoChars, 3, 20), Eol >>,
                                  validator.candidate, TRUE).ok)
    /\ UNCHANGED not_validator

NextCode == CodeLength \/ CodeDate \/ CodeNumber \/ CodeLabels \/ CodeShape

SpecCode == InitCode /\ [][NextCode]_vars

\* the call has ended, by a return of the value v or by an exception
Ended == validator.pc \in { "returned", "raised" }
Returns(v) == validator.pc = "returned" /\ validator.value = v

\* the steps return what the function returns for a candidate that holds no point
CodeAgrees ==
    (validator.pc = "returned" /\ ~IntRaises(validator.candidate)) =>
        validator.value = is_valid_code_no(validator.candidate)

\* d/m/y: one or two digits, one or two digits, two to four digits, separated by / or -
IsDateShaped(c) ==
    \E i, j \in 1..Len(c) :
        /\ i < j
        /\ Ch(c, i) \in { "/", "-" }
        /\ Ch(c, j) \in { "/", "-" }
        /\ AllDigits(SubSeq(c, 1, i - 1)) /\ i - 1 <= 2
        /\ AllDigits(SubSeq(c, i + 1, j - 1)) /\ j - i - 1 <= 2
        /\ AllDigits(SubSeq(c, j + 1, Len(c))) /\ Len(c) - j \in 2..4

\* a number: digits, or digits, a point and possibly digits
IsNumeric(c) ==
    \/ AllDigits(c)
    \/ \E i \in 2..Len(c) :
           /\ Ch(c, i) = "."
           /\ AllDigits(SubSeq(c, 1, i - 1))
           /\ i = Len(c) \/ AllDigits(SubSeq(c, i + 1, Len(c)))
DigitCount(c) == Len(Keep(c, DigitSet))
IntegerPart(c) == IntOf(SubSeq(c, 1, Min({ Len(c) + 1 } \cup { i \in 1..Len(c) : Ch(c, i) = "." }) - 1))
HasFraction(c) == \E i \in 1..Len(c) : Ch(c, i) = "." /\ Keep(SubSeq(c, i + 1, Len(c)), DigitSet \ { "0" }) # ""
ExceedsLimit(c) == IntegerPart(c) > 100000 \/ (IntegerPart(c) = 100000 /\ HasFraction(c))

\* the labels of the false-positive set; page is one of them
IsLabel(c) == Lower(c) = "page" \/ \E k \in 1..Len(invalid_labels) : Lower(c) = invalid_labels[k]

HasLetter(c) == \E i \in 1..Len(c) : Ch(c, i) \in UpperSet \cup LowerSet

\* a candidate that none of the three rejections concerns
IsOther(c) ==
    /\ ~IsDateShaped(c)
    /\ ~(IsNumeric(c) /\ (DigitCount(c) > 6 \/ ExceedsLimit(c)))
    /\ ~IsLabel(c)

\* C14: a call of the validator that has ended has returned False for a date-shaped
\* candidate, for a number of more than 6 digits or of a value above 100000, and for
\* a label in any case, and True for every other candidate of at least 2 characters
\* that holds a letter or is a number
C14_Validator ==
    Ended =>
        /\ IsDateShaped(validator.candidate) => Returns(FALSE)
        /\ IsNumeric(validator.candidate)
             /\ (DigitCount(validator.candidate) > 6 \/ ExceedsLimit(validator.candidate))
             => Returns(FALSE)
        /\ IsLabel(validator.candidate) => Returns(FALSE)
        /\ ( /\ IsOther(validator.candidate)
             /\ Len(validator.candidate) >= 2
             /\ HasLetter(validator.candidate) \/ IsNumeric(validator.candidate) )
             => Returns(TRUE)


-----------------------------------------------------------------------------
(* A call of build_invoice_json, one step per block *)

\* the empty string in a field that otherwise holds a float
Blank == << >>

\* x or ''  for an optional str, and  float(x) if x else ''  for an optional Decimal
StrOrEmpty(o) == IF TruthyStr(o) THEN Val(o) ELSE ""
FloatOrBlank(o) == IF TruthyDecimal(o) THEN Some(FloatOf(Val(o))) ELSE Blank

\* truth of a field that holds a float or ''
TruthyField(f) == f # Blank /\ Val(f).n # 0

Abs(k) == IF k < 0 THEN -k ELSE k

\* num / den rounded to the nearest integer, for num >= 0 and den > 0
RoundedQuotient(num, den) ==
    IF 2 * (num % den) > den \/ (2 * (num % den) = den /\ (num \div den) % 2 = 1)
    THEN (num \div den) + 1 ELSE num \div den
SignedQuotient(num, den) ==
    IF (num < 0) = (den < 0) THEN RoundedQuotient(Abs(num), Abs(den))
    ELSE -RoundedQuotient(Abs(num), Abs(den))

\* round((vat_amount / sub_total) * 100, 2) of line 863, for amounts whose quotient
\* is not half-way between two hundredths
PercentWith(vat_amount, sub_total, k) ==
    FloatOf([n |-> SignedQuotient(vat_amount.n * Pow10(sub_total.e - k) * 10000,
                                  sub_total.n * Pow10(vat_amount.e - k)),
             e |-> 2, d |-> 1])
Percent(vat_amount, sub_total) == PercentWith(vat_amount, sub_total, Min({ vat_amount.e, sub_total.e }))

\* the dictionaries the calls are given: what parse_invoice_data returns
BuilderInvoiceNos == { None, Some("1765632"), Some("pi-7") }
BuilderSubtotals == { None, Some(DecimalOf("0.00")), Some([n |-> -10000, e |-> 2, d |-> 1]),
                      Some(DecimalOf("100.00")), Some(DecimalOf("300")) }
BuilderTaxes == { None, Some(DecimalOf("0.00")), Some([n |-> -1800, e |-> 2, d |-> 1]),
                  Some(DecimalOf("18.00")), Some(DecimalOf("50.0")) }
BuilderTotals == { None, Some(DecimalOf("118.00")) }
BuilderItems ==
    { << >>,
      << [code |-> Some("21004"), description |-> "WHEEL BALANCE", unit |-> Some("PCS"), qty |-> 4,
          rate |-> Some(DecimalOf("12.00")), value |-> Some(DecimalOf("48.00"))],
         [code |-> None, description |-> "OIL", unit |-> None, qty |-> 3,
          rate |-> Some(DecimalOfInt(0)), value |-> Some(DecimalOfInt(0))] >> }
BuilderParses ==
    { [invoice_no |-> invoice_no, code_no |-> Some("A01696"), date |-> None,
       customer_name |-> Some("STATEOIL TANZANIA LIMITED"), phone |-> None, email |-> None,
       address |-> None, reference |-> None, subtotal |-> subtotal, tax |-> tax, total |-> total,
       items |-> items] :
         invoice_no \in BuilderInvoiceNos, subtotal \in BuilderSubtotals, tax \in BuilderTaxes,
         total \in BuilderTotals, items \in BuilderItems }

InitJson ==
    /\ CallIdle
    /\ session = Idle
    /\ parser = Idle
    /\ scanner = Idle
    /\ tiers = Idle
    /\ validator = Idle
    /\ money = Idle
    /\ codeno = Idle
    /\ \E p \in BuilderParses : builder = [pc |-> "invoice_type", parsed |-> p]

not_builder == << call_vars, session, parser, scanner, tiers, validator, money, codeno >>

\* line 821: parsed.get('invoice_no', '') is None when the key holds None, and
\* None.upper() raises AttributeError
BuildInvoiceType ==
    /\ builder.pc = "invoice_type"
    /\ IF builder.parsed.invoice_no = None
       THEN builder' = [pc |-> "raised", exception |-> "AttributeError"] @@ builder
       ELSE builder' =
                [pc |-> "details",
                 invoice_type |-> IF SubSeq(Upper(Val(builder.parsed.invoice_no)), 1, 2) = "PI"
                                  THEN "Proforma Invoice" ELSE "Invoice"] @@ builder
    /\ UNCHANGED not_builder

\* lines 823-838; parse_invoice_data returns no seller fields and no kind_attention
BuildDetails ==
    /\ builder.pc = "details"
    /\ builder' =
           [pc |-> "items",
            seller_details |-> [name |-> "", address |-> "", phone |-> "", email |-> "",
                                vat_number |-> ""],
            customer_details |-> [code |-> StrOrEmpty(builder.parsed.code_no),
                                  name |-> StrOrEmpty(builder.parsed.customer_name),
                                  address |-> StrOrEmpty(builder.parsed.address),
                                  contact_person |-> "",
                                  phone |-> StrOrEmpty(builder.parsed.phone),
                                  email |-> StrOrEmpty(builder.parsed.email)]] @@ builder
    /\ UNCHANGED not_builder

\* lines 842-850
ItemOut(idx, item) ==
    [sr_no |-> idx, item_code |-> StrOrEmpty(item.code), description |-> item.description,
     type |-> StrOrEmpty(item.unit), quantity |-> item.qty, rate |-> FloatOrBlank(item.rate),
     value |-> FloatOrBlank(item.value), vat_percent |-> ""]

\* lines 840-851
BuildItems ==
    /\ builder.pc = "items"
    /\ builder' =
           [pc |-> "totals",
            items_out |-> [ idx \in 1..Len(builder.parsed.items) |->
                              ItemOut(idx, builder.parsed.items[idx]) ]] @@ builder
    /\ UNCHANGED not_builder

\* lines 853-859
BuildTotals ==
    /\ builder.pc = "totals"
    /\ builder' =
           [pc |-> "vat_percent",
            totals |-> [sub_total |-> FloatOrBlank(builder.parsed.subtotal),
                        vat_amount |-> FloatOrBlank(builder.parsed.tax),
                        vat_percent |-> Blank,
                        discount |-> "",
                        grand_total |-> FloatOrBlank(builder.parsed.total)]] @@ builder
    /\ UNCHANGED not_builder

\* lines 862-865: the division, which raises ZeroDivisionError for a zero divisor;
\* divisors keeps the divisors of the divisions made
VatPercent(totals) ==
    IF Val(totals.sub_total).n = 0 THEN Blank
    ELSE Some(Percent(Val(totals.vat_amount), Val(totals.sub_total)))
Divided(totals) ==
    builder' = [pc |-> "metadata",
                totals |-> [totals EXCEPT !.vat_percent = VatPercent(totals)],
                divisors |-> << Val(totals.sub_total) >>] @@ builder
NotDivided == builder' = [pc |-> "metadata", divisors |-> << >>] @@ builder

\* a variant of line 861 without the test  totals['sub_total'] > 0
BuildVatPercent_any_sign ==
    /\ builder.pc = "vat_percent"
    /\ IF TruthyField(builder.totals.sub_total) /\ TruthyField(builder.totals.vat_amount)
       THEN Divided(builder.totals)
       ELSE NotDivided
    /\ UNCHANGED not_builder

\* lines 861-865
BuildVatPercent ==
    /\ builder.pc = "vat_percent"
    /\ IF /\ TruthyField(builder.totals.sub_total)
          /\ TruthyField(builder.totals.vat_amount)
          /\ Val(builder.totals.sub_total).n > 0
       THEN Divided(builder.totals)
       ELSE NotDivided
    /\ UNCHANGED not_builder

\* lines 867-886
BuildReturn ==
    /\ builder.pc = "metadata"
    /\ builder' =
           [pc |-> "returned",
            document |->
                [invoice_metadata |->
                     [invoice_type |-> builder.invoice_type,
                      invoice_number |-> StrOrEmpty(builder.parsed.invoice_no),
                      customer_reference |-> StrOrEmpty(builder.parsed.reference),
                      reference_date |-> "", page |-> "1", pages |-> "1",
                      issue_date |-> StrOrEmpty(builder.parsed.date),
                      due_date |-> "", delivery_date |-> ""],
                 seller_details |-> builder.seller_details,
                 customer_details |-> builder.customer_details,
                 items |-> builder.items_out,
                 totals |-> builder.totals,
                 footer_notes |-> ""]] @@ builder
    /\ UNCHANGED not_builder

NextJson ==
    \/ BuildInvoiceType
    \/ BuildDetails
    \/ BuildItems
    \/ BuildTotals
    \/ BuildVatPercent
    \/ BuildReturn

SpecJson == InitJson /\ [][NextJson]_vars

\* the call has returned a document
Built == builder.pc = "returned"

\* an optional Decimal is at most 0
AtMostZero(o) == o # None /\ Val(o).n <= 0

\* C17: the document that build_invoice_json has built has no VAT percentage when the
\* subtotal of the parse is absent or is 0 or less, whatever the tax, and no division
\* of the call had a zero divisor
C17_NoPercentWithoutSubtotal ==
    /\ ("divisors" \in DOMAIN builder) =>
           \A k \in 1..Len(builder.divisors) : builder.divisors[k].n # 0
    /\ builder.pc # "raised" \/ builder.exception # "ZeroDivisionError"
    /\ Built /\ (builder.parsed.subtotal = None \/ AtMostZero(builder.parsed.subtotal)) =>
           builder.document.totals.vat_percent = Blank

\* a document was built from a parse with a negative subtotal and a tax of 18.00:
\* it has the tax amount and no percentage, and no division was made
C17_Witness ==
    /\ Built
    /\ builder.parsed.subtotal = Some([n |-> -10000, e |-> 2, d |-> 1])
    /\ builder.document.totals.sub_total = Some([n |-> -100, e |-> 0, d |-> 1])
    /\ builder.document.totals.vat_amount = Some([n |-> 18, e |-> 0, d |-> 1])
    /\ builder.document.totals.vat_percent = Blank
    /\ builder.divisors = << >>

\* C18: the document has the percentage (tax / subtotal) x 100 whenever the parse has
\* both a tax and a subtotal and the subtotal is above 0, a tax of 0 included, which
\* gives 0; it has none only when one of the two is absent or the subtotal is 0 or less
C18_PercentWheneverPresent ==
    Built =>
        /\ ( /\ builder.parsed.tax # None
             /\ builder.parsed.subtotal # None
             /\ Val(builder.parsed.subtotal).n > 0 ) =>
               builder.document.totals.vat_percent =
                   Some(Percent(Val(builder.parsed.tax), Val(builder.parsed.subtotal)))
        /\ builder.document.totals.vat_percent = Blank =>
               \/ builder.parsed.tax = None
               \/ builder.parsed.subtotal = None
               \/ AtMostZero(builder.parsed.subtotal)


-----------------------------------------------------------------------------
(* A call of parse_invoice_data, one step per extraction *)

\* the text of test_extraction (lines 892-912)
SampleText ==
    "\n"
    \o "        Proforma Invoice\n"
    \o "        PI No: 1765632\n"
    \o "        Code No: A01696\n"
    \o "        Date: 25/10/2025\n"
    \o "        Customer Name: STATEOIL TANZANIA LIMITED\n"
    \o "        \n"
    \o "        P.O. BOX 15950 DAR ES SALAAM TANZANIA\n"
    \o "        \n"
    \o "        Sr  Item Code  Description                                                             Type  Qty  Rate (TSH)   Value (TSH)\n"
    \o "        1   2132004135 BF GOODRICH TYRE LT265/65R17 116/113S TL ALL-TERRAIN T/A KO3 LRD RWL GO PCS   4    1,037,400.00 4,149,600.00\n"
    \o "        2   3373119002 VALVE (1214 TR 414) FOR CAR TUBELESS TYRES                              PCS   4    1,300.00     5,200.00\n"
    \o "        3   21004      WHEEL BALANCE ALLOY RIMS                                                PCS   4    12,712.00    50,848.00\n"
    \o "        4   21019      WHEEL ALIGNMENT SMALL                                                   UNT   1    50,848.00    50,848.00\n"
    \o "        \n"
    \o "        Net Value: 4,256,496.00\n"
    \o "        VAT: 765,169.28\n"
    \o "        Grand Total: 5,021,665.28\n"
    \o "        "

\* texts with lines before the anchor: a phone number and a customer name, then a
\* table with its total; and a text without anchor
AnchoredTexts ==
    { "Tel: 0754 123456\n\n  Customer Name: ACME \nproforma  invoice\r\nDate: 25/10/2025\n",
      "Net Value: 10.00\nSr Code Description Qty Rate\n1 21004 WHEEL BALANCE PCS 4 12.00 48.00\n \t \n"
          \o "CODE NO: A01696\rVAT: 18.00",
      "Email: a@b.co\n   \nHello" }

ParserTexts == AllTexts \cup { SampleText } \cup AnchoredTexts

InitParse ==
    /\ CallIdle
    /\ session = Idle
    /\ scanner = Idle
    /\ tiers = Idle
    /\ validator = Idle
    /\ builder = Idle
    /\ money = Idle
    /\ codeno = Idle
    /\ \E txt \in ParserTexts : parser = [pc |-> "enter", text |-> txt]

not_parser == << call_vars, session, scanner, tiers, validator, builder, money, codeno >>

\* lines 93-99
EmptyParse ==
    [invoice_no |-> None, code_no |-> None, date |-> None, customer_name |-> None,
     phone |-> None, email |-> None, address |-> None, reference |-> None,
     subtotal |-> None, tax |-> None, total |-> None, items |-> << >>]

\* a variant of lines 92-113 that hands every line of the text to the extractors
ParseEnter_whole_text ==
    /\ parser.pc = "enter"
    /\ IF parser.text = "" \/ Strip(parser.text) = ""
       THEN parser' = [pc |-> "returned", fields |-> EmptyParse] @@ parser
       ELSE parser' = [pc |-> "extract", next |-> 1, fields |-> << >>,
                       extraction_lines |-> LinesOf(parser.text)] @@ parser
    /\ UNCHANGED not_parser

\* lines 92-113
ParseEnter ==
    /\ parser.pc = "enter"
    /\ IF parser.text = "" \/ Strip(parser.text) = ""
       THEN parser' = [pc |-> "returned", fields |-> EmptyParse] @@ parser
       ELSE parser' = [pc |-> "extract", next |-> 1, fields |-> << >>,
                       extraction_lines |-> ExtractionLines(LinesOf(parser.text))] @@ parser
    /\ UNCHANGED not_parser

\* the calls of lines 116-131, in their order
Extractions ==
    << "code_no", "invoice_no", "customer_name", "date", "address", "phone", "email",
       "reference", "subtotal", "tax", "total", "items" >>
Extraction(field, extraction_lines) ==
    CASE field = "code_no" -> extract_code_no_enhanced(extraction_lines)
      [] field = "invoice_no" -> extract_invoice_no(extraction_lines)
      [] field = "customer_name" -> extract_customer_name(extraction_lines)
      [] field = "date" -> extract_date(extraction_lines)
      [] field = "address" -> extract_address(extraction_lines)
      [] field = "phone" -> extract_phone(extraction_lines)
      [] field = "email" -> extract_email(extraction_lines)
      [] field = "reference" -> extract_reference(extraction_lines)
      [] field = "subtotal" -> extract_monetary_value(extraction_lines, subtotal_labels)
      [] field = "tax" -> extract_monetary_value(extraction_lines, tax_labels)
      [] field = "total" -> extract_monetary_value(extraction_lines, total_labels)
      [] field = "items" -> extract_line_items_corrected(extraction_lines)

\* one of the calls of lines 116-131
ParseExtract ==
    /\ parser.pc = "extract"
    /\ parser.next <= Len(Extractions)
    /\ parser' = [parser EXCEPT
                     !.fields = (Extractions[parser.next]
                                   :> Extraction(Extractions[parser.next], parser.extraction_lines)) @@ @,
                     !.next = @ + 1]
    /\ UNCHANGED not_parser

\* lines 133-142
ParseReturn ==
    /\ parser.pc = "extract"
    /\ parser.next > Len(Extractions)
    /\ parser' = [parser EXCEPT !.pc = "returned"]
    /\ UNCHANGED not_parser

NextParse == ParseEnter \/ ParseExtract \/ ParseReturn

SpecParse == InitParse /\ [][NextParse]_vars

\* the steps return what the function returns
ParseAgrees ==
    (parser.pc = "returned" /\ parser.text \in AllTexts) => parser.fields = Parsed[parser.text]

\* the codes of the items of a parse, in their order
ItemCodesOf(items) == [ k \in 1..Len(items) |-> items[k].code ]

\* the field has been extracted
Extracted(field) == field \in DOMAIN parser.fields

\* C15: the parse of the sample text has invoice_no 1765632, code_no A01696,
\* customer_name STATEOIL TANZANIA LIMITED, four items which are the four rows in
\* their order, and total 5021665.28; each field has its value from the step on that
\* extracts it, and the parse returned has them all
C15_SampleParse ==
    (parser.pc \in { "extract", "returned" } /\ parser.text = SampleText) =>
        /\ Extracted("invoice_no") => parser.fields.invoice_no = Some("1765632")
        /\ Extracted("code_no") => parser.fields.code_no = Some("A01696")
        /\ Extracted("customer_name") =>
               parser.fields.customer_name = Some("STATEOIL TANZANIA LIMITED")
        /\ Extracted("items") =>
               /\ Len(parser.fields.items) = 4
               /\ ItemCodesOf(parser.fields.items) =
                      << Some("2132004135"), Some("3373119002"), Some("21004"), Some("21019") >>
        /\ Extracted("total") => parser.fields.total = Some([n |-> 502166528, e |-> 2, d |-> 1])
        /\ parser.pc = "returned" =>
               \A field \in { "invoice_no", "code_no", "customer_name", "items", "total" } :
                   Extracted(field)

\* parse_invoice_data has returned the parse of the sample text
C15_Witness ==
    /\ parser.pc = "returned"
    /\ parser.text = SampleText
    /\ Len(parser.fields.items) = 4
    /\ parser.fields.subtotal = Some([n |-> 425649600, e |-> 2, d |-> 1])


-----------------------------------------------------------------------------
(* Continuation lines *)

\* the strings of a non-empty sequence, in order, with one space between them
RECURSIVE Concatenated(_)
Concatenated(strs) ==
    IF Len(strs) = 1 THEN strs[1]
    ELSE Concatenated(SubSeq(strs, 1, Len(strs) - 1)) \o " " \o strs[Len(strs)]

\* the fragment of the row that is being built when the scan is at line end: the
\* rest of its start line and the non-empty lines after it, taken from the lines of
\* the call
FragmentBefore(lines, rows, end) == RowFragment(lines, rows, end, Max(rows))
TextOf(fragment) == Concatenated([ k \in 1..Len(fragment) |-> fragment[k].line ])
BuiltBefore(lines, header, end) == FragmentBefore(lines, RowIndexes(lines, header, end), end)

\* the step parsed the item being built
ItemParsed == scanner.pc \in { "loop", "last" } /\ Len(scanner'.parsed_items) = Len(scanner.parsed_items) + 1

\* C21: a step of the scan that consumes a non-empty line which starts no item
\* appends the line as last fragment of the item being built and changes nothing
\* else, and when no item is being built it changes nothing but the position; the
\* item a step parses is parsed from the rest of the start line of its row and the
\* continuation lines after it, in their order, joined by single spaces
C21_Continuation ==
    [][ /\ (LineConsumed /\ ThisLine # "" /\ ~HasNumberedShape(ThisLine)) =>
              IF scanner.current_item_lines # << >>
              THEN scanner' = [scanner EXCEPT
                                  !.i = @ + 1,
                                  !.current_item_lines = Append(@, [code |-> None, line |-> ThisLine])]
              ELSE scanner' = [scanner EXCEPT !.i = @ + 1]
        /\ ItemParsed =>
              /\ scanner.current_item_lines = BuiltBefore(scanner.lines, scanner.table_start, scanner.i)
              /\ scanner'.parsed_items[Len(scanner'.parsed_items)] =
                     ParseFullText(scanner.current_item_lines[1].code,
                                   TextOf(BuiltBefore(scanner.lines, scanner.table_start, scanner.i))) ]_vars

\* the scan returned the item of a row wrapped over three lines, parsed from the
\* three lines in their order, after it ignored a line that came before any row
C21_Witness ==
    /\ scanner.pc = "returned"
    /\ Len(scanner.lines) = 6
    /\ scanner.lines[2] = "ALLOY"
    /\ scanner.current_item_lines =
           << [code |-> Some("21004"), line |-> "WHEEL BALANCE"],
              [code |-> None, line |-> "ALLOY RIMS"],
              [code |-> None, line |-> "PCS 4 12.00 48.00"] >>
    /\ Len(scanner.items) = 1
    /\ scanner.items[1].description = "WHEEL BALANCE ALLOY"
    /\ scanner.items[1].qty = 4
    /\ scanner.items[1].value = Some([n |-> 4800, e |-> 2, d |-> 1])


-----------------------------------------------------------------------------
(* Rows without a code *)

\* the rows of the table of a scan that has returned, and the line of the k-th
TableRows(scan) == RowIndexes(scan.lines, scan.table_start, TableEnd(scan.lines, scan.table_start))
RowLine(scan, k) == Strip(scan.lines[NthRow(TableRows(scan), k)])

\* C22: once the scan has returned, the item parsed from a row of the shape
\* <number> <rest> that has no code token after its number has no code
C22_CodeUnset ==
    (scanner.pc = "returned" /\ scanner.table_start # 0) =>
        \A k \in 1..Len(scanner.parsed_items) :
            (~HasItemShape(RowLine(scanner, k)) /\ scanner.parsed_items[k] # None) =>
                Val(scanner.parsed_items[k]).code = None


-----------------------------------------------------------------------------
(* Short descriptions *)

\* C23: no item of the list that extract_line_items_corrected builds and returns has
\* a description of less than 2 characters
C23_NoShortDescription ==
    scanner.pc # "idle" => \A k \in 1..Len(scanner.items) : Len(scanner.items[k].description) >= 2


-----------------------------------------------------------------------------
(* Percentages *)

\* the item parse_item_complete would return if every tier were matched against
\* the text without its percentages
FromCleanedText == ParseCleaned(tiers.item_code, tiers.cleaned_text, tiers.cleaned_text)

SameAmounts(item, other) ==
    /\ item.qty = other.qty
    /\ item.rate = other.rate
    /\ item.value = other.value

\* C24: the quantity, rate and value of the item that parse_item_complete returns are
\* those found in the text of the fragment without its percentages, in every tier
C24_PercentagesStripped ==
    tiers.pc = "returned" /\ tiers.tier \in 1..4 =>
        /\ tiers.item = None <=> FromCleanedText = None
        /\ tiers.item # None => SameAmounts(Val(tiers.item), Val(FromCleanedText))


-----------------------------------------------------------------------------
(* The code of an item and its amounts *)

\* the decimal x has the value of the digits c; the amounts of the fragments have
\* fewer than ten digits, so a longer number is none of them
EqualsDigits(x, c) == Len(c) + x.e <= 9 /\ x.n = IntOf(c) * Pow10(x.e)

\* C30: the number that is the code of the item parse_item_complete returns is not
\* its quantity, its rate or its value
C30_CodeNotAnAmount ==
    (tiers.pc = "returned" /\ tiers.item # None /\ Val(tiers.item).code # None) =>
        /\ ~EqualsDigits(DecimalOfInt(Val(tiers.item).qty), Val(Val(tiers.item).code))
        /\ ~EqualsDigits(Val(Val(tiers.item).rate), Val(Val(tiers.item).code))
        /\ ~EqualsDigits(Val(Val(tiers.item).value), Val(Val(tiers.item).code))


-----------------------------------------------------------------------------
(* The document of every parse *)

\* C28: build_invoice_json raises no exception, whether or not the parse has an
\* invoice number, and the items of the document it returns are the items of the
\* parse in their order, numbered from 1
C28_AlwaysBuilds ==
    /\ builder.pc # "raised"
    /\ Built =>
           /\ Len(builder.document.items) = Len(builder.parsed.items)
           /\ \A k \in 1..Len(builder.document.items) :
                  /\ builder.document.items[k].sr_no = k
                  /\ builder.document.items[k].description = builder.parsed.items[k].description
                  /\ builder.document.items[k].quantity = builder.parsed.items[k].qty


-----------------------------------------------------------------------------
(* The text of one backend *)

\* C29: when PyPDF2 is about to be tried nothing that PyMuPDF collected is left in
\* the text, and the text extract_text_from_pdf returns is the text of the pages of
\* one document as one backend read them, page by page
C29_OneBackend ==
    /\ (pc = "pypdf2" /\ TryPyPDF2) => text = ""
    /\ pc = "check_text" => \E d \in Documents : text = JoinPages(d)


-----------------------------------------------------------------------------
(* A call of extract_monetary_value, one step per label and line *)

\* the lines of the calls: amounts after a label, with a currency code, with
\* thousands separators, a label followed by a lone comma, by a comma and a point,
\* and a line without label
MoneyLines ==
    { "Hello", "VAT: 18.00", "VAT: ,", "VAT ,.", "Tax TZS 1,200.50", "GST = 7", "Net Value: 100.00" }
MoneyInputs == UNION { [1..n -> MoneyLines] : n \in 0..MaxLines }
MoneyLabels == { subtotal_labels, tax_labels, total_labels }

InitMoney ==
    /\ CallIdle
    /\ session = Idle
    /\ parser = Idle
    /\ scanner = Idle
    /\ tiers = Idle
    /\ validator = Idle
    /\ builder = Idle
    /\ codeno = Idle
    /\ \E lines \in MoneyInputs, patterns \in MoneyLabels :
        money = [pc |-> "loop", lines |-> lines, patterns |-> patterns, p |-> 1, l |-> 1]

not_money == << call_vars, session, parser, scanner, tiers, validator, builder, codeno >>

\* lines 358-359: the loops are at a label and a line
AtPair == money.pc = "loop" /\ money.p <= Len(money.patterns) /\ money.l <= Len(money.lines)
ThisMatch == Search(MoneyPattern(money.patterns[money.p]), money.lines[money.l], TRUE)
Cleaned(m) == Keep(Group(money.lines[money.l], m, 1), DigitSet \cup { "." })

\* line 359: the lines are over for this label, on to the next label
MoneyNextPattern ==
    /\ money.pc = "loop"
    /\ money.p <= Len(money.patterns)
    /\ money.l > Len(money.lines)
    /\ money' = [money EXCEPT !.p = @ + 1, !.l = 1]
    /\ UNCHANGED not_money

\* lines 360-361: the label is not in the line
MoneyNoMatchWith(m) ==
    /\ ~m.ok
    /\ money' = [money EXCEPT !.l = @ + 1]
MoneyNoMatch ==
    /\ AtPair
    /\ MoneyNoMatchWith(ThisMatch)
    /\ UNCHANGED not_money

\* lines 361-364: return Decimal(cleaned) if cleaned else None
MoneyReturnWith(m, cleaned) ==
    /\ m.ok
    /\ ~DecimalRaises(cleaned) \/ cleaned = ""
    /\ money' = [pc |-> "returned",
                 value |-> IF cleaned = "" THEN None ELSE Some(DecimalOf(cleaned))] @@ money
MoneyReturn ==
    /\ AtPair
    /\ MoneyReturnWith(ThisMatch, Cleaned(ThisMatch))
    /\ UNCHANGED not_money

\* lines 364-366: Decimal raises, the exception is passed over
MoneyExceptWith(m, cleaned) ==
    /\ m.ok
    /\ cleaned # ""
    /\ DecimalRaises(cleaned)
    /\ money' = [money EXCEPT !.l = @ + 1]
MoneyExcept ==
    /\ AtPair
    /\ MoneyExceptWith(ThisMatch, Cleaned(ThisMatch))
    /\ UNCHANGED not_money

\* line 367
MoneyEnd ==
    /\ money.pc = "loop"
    /\ money.p > Len(money.patterns)
    /\ money' = [pc |-> "returned", value |-> None] @@ money
    /\ UNCHANGED not_money

NextMoney ==
    \/ MoneyNextPattern
    \/ MoneyNoMatch
    \/ MoneyReturn
    \/ MoneyExcept
    \/ MoneyEnd

SpecMoney == InitMoney /\ [][NextMoney]_vars

\* the step model returns what the function returns
MoneyAgrees ==
    money.pc = "returned" => money.value = extract_monetary_value(money.lines, money.patterns)

\* the digits the line has after the label, with its points: empty when the label
\* is not in the line or is followed by no digit
DigitsAfter(line, m) == IF m.ok THEN Keep(Group(line, m, 1), DigitSet \cup { "." }) ELSE ""
NumberAfter(line, label) == DigitsAfter(line, Search(MoneyPattern(label), line, TRUE))
HasNumber(line, label) == Keep(NumberAfter(line, label), DigitSet) # ""

\* the (label, line) pairs of a call where the line has a number after the label,
\* and the first of them in the order of the loops: label by label, line by line
NumberPairs(lines, patterns) ==
    { c \in (1..Len(patterns)) \X (1..Len(lines)) : HasNumber(lines[c[2]], patterns[c[1]]) }
FirstPair(pairs) ==
    CHOOSE c \in pairs : \A d \in pairs : c[1] < d[1] \/ (c[1] = d[1] /\ c[2] <= d[2])
FirstNumber(lines, patterns, pairs) ==
    IF pairs = {} THEN None
    ELSE Some(DecimalOf(NumberAfter(lines[FirstPair(pairs)[2]], patterns[FirstPair(pairs)[1]])))

\* C26: extract_monetary_value returns the number of the first pair of label and
\* line, label by label and line by line, where the line has a number after the
\* label, and None only when there is no such pair
C26_FirstAmount ==
    money.pc = "returned" =>
        money.value = FirstNumber(money.lines, money.patterns,
                                  NumberPairs(money.lines, money.patterns))


-----------------------------------------------------------------------------
(* A call of extract_code_no_enhanced, one step per line and pattern *)

\* the lines of the calls: a code after its label, candidates the validator
\* rejects (a date, a label), a code without label, a customer label, a seller
\* line, a reference, a table header and a line with none of these
CodeNoLines ==
    { "Hello", "Code No: A01696", "Code No: 25/10/2025", "Code: Total", "AB1234 supplied",
      "Customer Details", "Seller and customer", "Ref: 12-345", "Description Qty" }
CodeNoTails == UNION { [1..n -> CodeNoLines] : n \in 0..MaxLines }

\* longer calls: a reference two lines after the customer label, one after an item
\* label, one that is a date, and a code that comes after a reference
CodeNoPages ==
    { << "Customer Details", "Hello", "Ref: 12-345" >>,
      << "Customer Details", "Description Qty", "Ref: 12-345" >>,
      << "Client", "Ref: 25/10/2025", "Ref: 12-345", "Description Qty" >>,
      << "Customer Details", "Ref: 12-345", "Code: Total", "Code No: A01696" >> }
CodeNoInputs == CodeNoTails \cup CodeNoPages

InitCodeNo ==
    /\ CallIdle
    /\ session = Idle
    /\ parser = Idle
    /\ scanner = Idle
    /\ tiers = Idle
    /\ validator = Idle
    /\ builder = Idle
    /\ money = Idle
    /\ \E lines \in CodeNoInputs :
        codeno = [pc |-> "patterns", lines |-> lines, i |-> 1, k |-> 1]

not_codeno == << call_vars, session, parser, scanner, tiers, validator, builder, money >>

\* lines 164-165: the loops are at a line and a pattern
AtPattern ==
    /\ codeno.pc = "patterns"
    /\ codeno.i <= Len(codeno.lines)
    /\ codeno.k <= Len(code_no_patterns)
PatternMatch == Search(code_no_patterns[codeno.k], codeno.lines[codeno.i], TRUE)

\* return of extract_code_no_enhanced; via and at tell where the value was found
CodeNoReturn(value, via, at) ==
    codeno' = [pc |-> "returned", value |-> value, via |-> via, at |-> at] @@ codeno

\* a variant of lines 167-174 that returns the candidate without validating it
CodeNoAccept_unvalidatedWith(line, m) ==
    /\ m.ok
    /\ CodeNoReturn(Some(Strip(Group(line, m, 1))), "patterns", << codeno.i, codeno.k >>)
CodeNoAccept_unvalidated ==
    /\ AtPattern
    /\ CodeNoAccept_unvalidatedWith(codeno.lines[codeno.i], PatternMatch)
    /\ UNCHANGED not_codeno

\* lines 166-174: the pattern matches and the candidate is valid
CodeNoAcceptWith(line, m) ==
    /\ m.ok
    /\ is_valid_code_no(Strip(Group(line, m, 1)))
    /\ CodeNoReturn(Some(Strip(Group(line, m, 1))), "patterns", << codeno.i, codeno.k >>)
CodeNoAccept ==
    /\ AtPattern
    /\ CodeNoAcceptWith(codeno.lines[codeno.i], PatternMatch)
    /\ UNCHANGED not_codeno

\* lines 166-171: no match, or a candidate the validator rejects: the next pattern
CodeNoRejectWith(line, m) ==
    /\ ~(m.ok /\ is_valid_code_no(Strip(Group(line, m, 1))))
    /\ codeno' = [codeno EXCEPT !.k = @ + 1]
CodeNoReject ==
    /\ AtPattern
    /\ CodeNoRejectWith(codeno.lines[codeno.i], PatternMatch)
    /\ UNCHANGED not_codeno

\* line 164: the patterns are over for this line, on to the next line
CodeNoNextLine ==
    /\ codeno.pc = "patterns"
    /\ codeno.i <= Len(codeno.lines)
    /\ codeno.k > Len(code_no_patterns)
    /\ codeno' = [codeno EXCEPT !.i = @ + 1, !.k = 1]
    /\ UNCHANGED not_codeno

\* lines 177-178 and 226-227: no line gave a code, the customer section is scanned
CodeNoFallback ==
    /\ codeno.pc = "patterns"
    /\ codeno.i > Len(codeno.lines)
    /\ codeno' = [pc |-> "section", j |-> 1, in_customer_section |-> FALSE] @@ codeno
    /\ UNCHANGED not_codeno

\* line 229: the scan of the customer section is at a line
AtSectionLine == codeno.pc = "section" /\ codeno.j <= Len(codeno.lines)
SectionLine == codeno.lines[codeno.j]
IsCustomerLabel(line) ==
    Search(customer_section, line, TRUE).ok /\ ~Search(seller_section, line, TRUE).ok

\* lines 231-233
SectionLabel ==
    /\ AtSectionLine
    /\ IsCustomerLabel(SectionLine)
    /\ codeno' = [codeno EXCEPT !.in_customer_section = TRUE, !.j = @ + 1]
    /\ UNCHANGED not_codeno

\* line 235: a line before the customer section
SectionOutside ==
    /\ AtSectionLine
    /\ ~IsCustomerLabel(SectionLine)
    /\ ~codeno.in_customer_section
    /\ codeno' = [codeno EXCEPT !.j = @ + 1]
    /\ UNCHANGED not_codeno

\* lines 237-238 and 256
SectionStop ==
    /\ AtSectionLine
    /\ ~IsCustomerLabel(SectionLine)
    /\ codeno.in_customer_section
    /\ Search(other_section, SectionLine, TRUE).ok
    /\ CodeNoReturn(None, "customer_section", << codeno.j, 0 >>)
    /\ UNCHANGED not_codeno

\* lines 240-254: a line of the customer section, with or without a valid code
SectionCodeWith(found) ==
    IF found # None THEN CodeNoReturn(found, "customer_section", << codeno.j, 0 >>)
    ELSE codeno' = [codeno EXCEPT !.j = @ + 1]
SectionCode ==
    /\ AtSectionLine
    /\ ~IsCustomerLabel(SectionLine)
    /\ codeno.in_customer_section
    /\ ~Search(other_section, SectionLine, TRUE).ok
    /\ SectionCodeWith(CodeNoInLine(SectionLine, customer_code_patterns))
    /\ UNCHANGED not_codeno

\* line 256
SectionEnd ==
    /\ codeno.pc = "section"
    /\ codeno.j > Len(codeno.lines)
    /\ CodeNoReturn(None, "customer_section", << codeno.j, 0 >>)
    /\ UNCHANGED not_codeno

NextCodeNo ==
    \/ CodeNoAccept
    \/ CodeNoReject
    \/ CodeNoNextLine
    \/ CodeNoFallback
    \/ SectionLabel
    \/ SectionOutside
    \/ SectionStop
    \/ SectionCode
    \/ SectionEnd

SpecCodeNo == InitCodeNo /\ [][NextCodeNo]_vars

\* the step model returns what the function returns
CodeNoAgrees ==
    codeno.pc = "returned" => codeno.value = extract_code_no_enhanced(codeno.lines)


\* the pattern finds in the line a candidate that is_valid_code_no accepts
AcceptedMatch(line, m) == m.ok /\ is_valid_code_no(Strip(Group(line, m, 1)))
Accepted(line, pattern) == AcceptedMatch(line, Search(pattern, line, TRUE))
FoundBy(line, pattern) == Some(Strip(Group(line, Search(pattern, line, TRUE), 1)))

\* no pattern finds an accepted candidate in a line before line i, nor a pattern
\* before pattern k in line i
NoneBefore(lines, i, k) ==
    /\ \A a \in 1..(i - 1) : \A b \in 1..Len(code_no_patterns) :
           ~Accepted(lines[a], code_no_patterns[b])
    /\ i <= Len(lines) => \A b \in 1..(k - 1) : ~Accepted(lines[i], code_no_patterns[b])

\* the line holds an items or description label
IsItemsLabel(line) == Contains(Lower(line), "items") \/ Contains(Lower(line), "description")

\* line j comes after a customer label with no items or description label in between
InCustomerSection(lines, j) ==
    \E c \in 1..(j - 1) :
        /\ IsCustomerLabel(lines[c])
        /\ \A l \in (c + 1)..j : ~IsItemsLabel(lines[l])

\* C25: extract_code_no_enhanced returns None or a candidate that is_valid_code_no
\* accepts; the loops go line by line and pattern by pattern, so that a candidate
\* returned from the patterns is the first accepted one in that order; the customer
\* section is scanned only when no pattern finds an accepted candidate in any line,
\* and a value it returns is in a line that comes after a customer label and before
\* any items or description label
C25_ValidatedFirstMatch ==
    /\ codeno.pc = "patterns" => NoneBefore(codeno.lines, codeno.i, codeno.k)
    /\ codeno.pc = "section" => NoneBefore(codeno.lines, Len(codeno.lines) + 1, 1)
    /\ codeno.pc = "returned" =>
           /\ codeno.value # None => is_valid_code_no(Val(codeno.value))
           /\ codeno.via = "patterns" =>
                  \E i \in 1..Len(codeno.lines), k \in 1..Len(code_no_patterns) :
                      /\ NoneBefore(codeno.lines, i, k)
                      /\ Accepted(codeno.lines[i], code_no_patterns[k])
                      /\ codeno.value = FoundBy(codeno.lines[i], code_no_patterns[k])
           /\ codeno.via = "customer_section" =>
                  /\ NoneBefore(codeno.lines, Len(codeno.lines) + 1, 1)
                  /\ codeno.value # None =>
                         \E j \in 1..Len(codeno.lines) :
                             /\ InCustomerSection(codeno.lines, j)
                             /\ Contains(codeno.lines[j], Val(codeno.value))

\* the customer section gave the reference of its second line, after the patterns
\* found nothing in four lines and the reference of its first line, a date, was
\* rejected
C25_Witness ==
    /\ codeno.pc = "returned"
    /\ codeno.via = "customer_section"
    /\ Len(codeno.lines) = 4
    /\ codeno.lines[2] = "Ref: 25/10/2025"
    /\ codeno.value = Some("12-345")


-----------------------------------------------------------------------------
(* The anchor of parse_invoice_data *)

\* the text s has the word first, then at least min whitespace characters and
\* nothing else, then the word second
WordsAt(s, first, second, i, j) ==
    /\ i + Len(first) - 1 <= Len(s)
    /\ SubSeq(s, i, i + Len(first) - 1) = first
    /\ j + Len(second) - 1 <= Len(s)
    /\ SubSeq(s, j, j + Len(second) - 1) = second
    /\ \A k \in (i + Len(first))..(j - 1) : Ch(s, k) \in SpaceSet
HasWords(s, first, second, min) ==
    \E i \in 1..Len(s) : \E j \in (i + Len(first) + min)..Len(s) : WordsAt(s, first, second, i, j)

\* the line holds Proforma Invoice, PI No or Code No, in any case
IsAnchor(line) ==
    \/ HasWords(Lower(line), "proforma", "invoice", 1)
    \/ HasWords(Lower(line), "pi", "no", 0)
    \/ HasWords(Lower(line), "code", "no", 0)

\* the index in the lines of a text where the lines given to the extractors start
AnchorOf(all, extraction_lines) == Len(all) - Len(extraction_lines) + 1

\* the lines are those of all from index a on, a is the first anchor, and it is 1
\* when there is no anchor
AnchoredAt(all, extraction_lines, a) ==
    /\ a >= 1
    /\ extraction_lines = SubSeq(all, a, Len(all))
    /\ \A k \in 1..(a - 1) : ~IsAnchor(all[k])
    /\ a > 1 => IsAnchor(all[a])
    /\ (a = 1 /\ all # << >>) => (IsAnchor(all[1]) \/ \A k \in 1..Len(all) : ~IsAnchor(all[k]))

\* the text made of the lines: what is left of a text once the lines before its
\* anchor are cut off
RECURSIVE TextOfLines(_)
TextOfLines(lines) ==
    IF lines = << >> THEN "" ELSE Head(lines) \o "\n" \o TextOfLines(Tail(lines))

\* the field that the last step extracted is the one the extractor finds in the
\* text cut at the anchor
SameWithoutLinesBefore(field, all, a) ==
    parser.fields[field] = Extraction(field, LinesOf(TextOfLines(SubSeq(all, a, Len(all)))))
LastExtractedSame(all, a) ==
    (a > 1 /\ parser.pc = "extract" /\ parser.next > 1) =>
        SameWithoutLinesBefore(Extractions[parser.next - 1], all, a)

AnchoredWith(all) ==
    /\ AnchoredAt(all, parser.extraction_lines, AnchorOf(all, parser.extraction_lines))
    /\ LastExtractedSame(all, AnchorOf(all, parser.extraction_lines))

\* C27: the lines parse_invoice_data gives to its extractors are the lines of the
\* text, none of them empty or blank and in the order of the text, from the first
\* line that holds Proforma Invoice, PI No or Code No in any case, and all of them
\* when no line does; every field is the one the extractor finds in the text cut
\* at that line
C27_AnchoredLines ==
    (parser.pc \in { "extract", "returned" } /\ "extraction_lines" \in DOMAIN parser) =>
        /\ \A k \in 1..Len(parser.extraction_lines) :
               /\ parser.extraction_lines[k] # ""
               /\ Strip(parser.extraction_lines[k]) = parser.extraction_lines[k]
        /\ AnchoredWith(LinesOf(parser.text))

\* the parse of a text whose first two lines, before the anchor in lower case,
\* hold a phone number and a customer name: neither is found, the date after the
\* anchor is
C27_Witness ==
    /\ parser.pc = "returned"
    /\ "extraction_lines" \in DOMAIN parser
    /\ Contains(parser.text, "Tel: 0754 123456")
    /\ parser.extraction_lines = << "proforma  invoice", "Date: 25/10/2025" >>
    /\ parser.fields.phone = None
    /\ parser.fields.customer_name = None
    /\ parser.fields.date = Some("25/10/2025")

=============================================================================
